---- MODULE Spec2Model ----
(***************************************************************************)
(* Crusader X multiplayer server (src/server/server.mjs): the player       *)
(* registry, hit resolution, the laser broadcast buffer, the state sync    *)
(* and the timeout sweeper, as one state machine over the single-threaded  *)
(* event loop.  Every handler of the server is one atomic action.          *)
(***************************************************************************)
EXTENDS Integers, Sequences, FiniteSets, TLC

----------------------------------------------------------------------------
(* Configuration of server.mjs, times in milliseconds.                     *)

PLAYER_TIMEOUT == 10000
DISCONNECTED_PLAYER_TIMEOUT == 60000
SYNC_INTERVAL == 100
SWEEP_INTERVAL == 5000
LASER_INTERVAL == 100
RECENTLY_HIT_DELAY == 500
hitThreshold == 10
DAMAGE == 5
START_HEALTH == 100
MAX_RECONNECT_DELAY == 30000
RECONNECT_DELAY == 1000
LASER_QUEUE_MAX == 2

----------------------------------------------------------------------------
(* Bounds of the exploration.                                              *)

\* the clock is explored up to MaxSweeps periods of the sweep timer
MaxSweeps == 4
\* purge: the same, up to the first sweep that can purge a record
MaxSweepsPurge == 13
\* laserFire messages handled in one behaviour
MaxShots == 1

\* combat: sweep periods the clock runs on for, laserFire messages handled
MaxSweepsCombat == 1
MaxShotsCombat == 1

\* hit scan: flush periods the clock runs on for, laserFire messages handled
MaxTicksScan == 1
MaxShotsScan == 2

\* broadcast: flush periods the clock runs on for, laserFire messages handled
MaxTicksBroadcast == 1
MaxShotsBroadcast == 3

\* grace period: sweeps after the one at DISCONNECTED_PLAYER_TIMEOUT
MaxSweepsGrace == 1

\* hit flag: half reset delays the clock runs on for, laserFire messages handled
MaxTicksFlag == 3
MaxShotsFlag == 2

\* client: reconnection attempts in one row, channels waiting for their
\* connect callback, channels connected at once, snapshots counted per
\* connection
MaxAttempts == 6
MaxConnecting == 2
MaxConnected == 2
MaxSnapshots == 2

\* arrival order: flush periods the clock runs on for, laserFire messages handled
MaxTicksOrder == 1
MaxShotsOrder == 3

\* clock reads: ms the clock is followed off the grid of the laser timer,
\* ms it may advance between two reads of one handler, sweeps
MaxDrift == 2
MaxJitter == 1
MaxSweepsClock == 3

\* channel ids the transport hands out
Ids == {"a", "b"}

----------------------------------------------------------------------------
(* Optional fields of a client payload: <<>> is an absent field, <<v>> a   *)
(* field that is present with value v.                                     *)

None == <<>>
Some(v) == <<v>>
IsSome(o) == o # <<>>
Val(o) == o[1]

\* a message whose payload is null
Null == [null |-> TRUE]

----------------------------------------------------------------------------
(* A JavaScript Map (and the plain object laserBuffer): a sequence of      *)
(* entries [k, v] in insertion order.  set() on an existing key keeps the  *)
(* key's place, delete() removes the entry.                                *)

MapKeys(m) == {m[i].k : i \in 1..Len(m)}
MapHas(m, key) == key \in MapKeys(m)
MapIndex(m, key) == CHOOSE i \in 1..Len(m) : m[i].k = key
MapGet(m, key) == m[MapIndex(m, key)].v
MapSet(m, key, val) ==
    IF MapHas(m, key)
    THEN [m EXCEPT ![MapIndex(m, key)] = [k |-> key, v |-> val]]
    ELSE Append(m, [k |-> key, v |-> val])
MapDelete(m, key) == SelectSeq(m, LAMBDA e : e.k # key)
MapSize(m) == Len(m)

----------------------------------------------------------------------------
(* State.                                                                  *)

VARIABLES
    players,              \* Map id -> player record (active registry)
    disconnectedPlayers,  \* Map id -> player record (disconnected registry)
    playerLastSeen,       \* Map id -> time of the last accepted message
    laserBuffer,          \* object shooter id -> array of buffered events
    hitTimers,            \* pending recentlyHit setTimeout callbacks
    due,                  \* next due time of the three setInterval timers
    now,                  \* Date.now()
    open,                 \* ids whose channel is open at the transport
    sent,                 \* messages emitted by the last handler, in order
    last,                 \* the handler that ran last: [op, id]
    shots,                \* laserFire messages handled so far
    purged,               \* history: ids some sweep purged after their grace period
    leftAt,               \* history: when each id left the active registry, for
                          \* the ids that have not connected since (else -1)
    halted,               \* an exception left a handler and ended the process
    jitter,               \* by how many ms the clock may advance between two
                          \* Date.now() reads of one handler (fixed per run)
    measured,             \* a point, a segment and, once computed, their distance
    client                \* the private variables of one NetworkController

vars == <<players, disconnectedPlayers, playerLastSeen, laserBuffer, hitTimers,
          due, now, open, sent, last, shots,
          purged, leftAt, halted, jitter, measured, client>>

\* the three registries, as the handlers below take and return them
Registries == [players |-> players, disc |-> disconnectedPlayers, seen |-> playerLastSeen]

Origin == <<0, 0, 0>>

\* (mutant) a new player starts one hit down
NewPlayerHurt(id, t) ==
    [id |-> id, position |-> Origin, rotation |-> Origin, velocity |-> 0,
     nickname |-> "Unknown", colorIndex |-> 0, health |-> START_HEALTH - DAMAGE,
     kills |-> 0, timestamp |-> t, recentlyHit |-> FALSE]

\* the record io.onConnection creates for a new player
NewPlayer(id, t) ==
    [id |-> id, position |-> Origin, rotation |-> Origin, velocity |-> 0,
     nickname |-> "Unknown", colorIndex |-> 0, health |-> START_HEALTH,
     kills |-> 0, timestamp |-> t, recentlyHit |-> FALSE]

\* NetworkController's private variables when the script has loaded, with
\* the channels it has created counted by their state at the transport, and
\* three history fields: the reconnection attempts made since the connection
\* was lost, the snapshots received since the last successful connect, and
\* whether the last snapshot was processed
ClientLoaded ==
    [isConnected |-> FALSE, reconnectTimer |-> None, reconnectAttempts |-> 0,
     ignoreFirstPlayerUpdate |-> TRUE, timers |-> <<>>, mock |-> FALSE, connecting |-> 0, connected |-> 0,
     made |-> 0, snapshots |-> 0, processed |-> FALSE]

\* a message handed to the transport: topic, the ids of the channels it is
\* delivered to, payload
Msg(topic, to, payload) == [topic |-> topic, to |-> to, payload |-> payload]

Init ==
    /\ players = <<>>
    /\ disconnectedPlayers = <<>>
    /\ playerLastSeen = <<>>
    /\ laserBuffer = <<>>
    /\ hitTimers = {}
    /\ due = [sweep |-> SWEEP_INTERVAL, laser |-> LASER_INTERVAL, sync |-> SYNC_INTERVAL]
    /\ now = 0
    /\ open = {}
    /\ sent = <<>>
    /\ last = [op |-> "start", id |-> ""]
    /\ shots = 0
    /\ purged = {}
    /\ leftAt = [i \in Ids |-> -1]
    /\ halted = FALSE
    /\ jitter = {0}
    /\ measured = None
    /\ client = ClientLoaded

----------------------------------------------------------------------------
(* The event loop runs the callbacks of all expired timers (its timers     *)
(* phase) before it polls the transport for messages and before the clock  *)
(* is read again: a message handler runs only when no timer is due.        *)

NoTimerDue ==
    /\ due.sweep > now /\ due.laser > now /\ due.sync > now
    /\ \A t \in hitTimers : t.at > now

\* a handler that reads Date.now() twice gets the second value d ms after
\* the first; the clock is followed no further than MaxDrift off the grid of
\* the laser timer
Slip(d) == IF d = 0 THEN TRUE ELSE (now % LASER_INTERVAL) + d <= MaxDrift

----------------------------------------------------------------------------
(* io.onConnection: a channel with id `id` is opened by the transport.     *)
(* The transport never hands out the id of a channel that is still open.   *)

\* (mutant) every connection gets a new record
ConnectAlwaysNew(disc, id, t) == NewPlayer(id, t)

\* (mutant) a reconnection restores the record with full health
ConnectRecordHealed(disc, id, t) ==
    IF MapHas(disc, id)
    THEN [MapGet(disc, id) EXCEPT !.timestamp = t, !.health = START_HEALTH]
    ELSE NewPlayer(id, t)

\* the record the connection handler stores for id: the record kept in the
\* disconnected registry with a fresh timestamp, else a new one
ConnectRecord(disc, id, t) ==
    IF MapHas(disc, id)
    THEN [MapGet(disc, id) EXCEPT !.timestamp = t]
    ELSE NewPlayer(id, t)

\* payload of the playerJoined broadcast
JoinedPayload(rec) ==
    [id |-> rec.id, position |-> rec.position, rotation |-> rec.rotation,
     velocity |-> rec.velocity, nickname |-> rec.nickname,
     colorIndex |-> rec.colorIndex, health |-> rec.health, kills |-> rec.kills]

\* (mutant) the new channel is told of every active record, its own too
RECURSIVE CatchUpAll(_, _, _)
CatchUpAll(ps, id, i) ==
    IF i > Len(ps) THEN <<>>
    ELSE <<Msg("playerJoined", {id}, ps[i].v)>> \o CatchUpAll(ps, id, i + 1)

\* players.forEach: one playerJoined per other active record, to the new channel
RECURSIVE CatchUp(_, _, _)
CatchUp(ps, id, i) ==
    IF i > Len(ps) THEN <<>>
    ELSE IF ps[i].k # id
         THEN <<Msg("playerJoined", {id}, ps[i].v)>> \o CatchUp(ps, id, i + 1)
         ELSE CatchUp(ps, id, i + 1)

Connect(id) ==
    /\ last' = [op |-> "connect", id |-> id]
    /\ ~halted
    /\ NoTimerDue
    /\ id \notin open
    /\ \E d \in jitter :
          /\ Slip(d)
          /\ now' = now + d
          /\ LET rec == ConnectRecord(disconnectedPlayers, id, now)
                 ps == MapSet(players, id, rec)
             IN /\ players' = ps
                /\ disconnectedPlayers' = MapDelete(disconnectedPlayers, id)
                /\ playerLastSeen' = MapSet(playerLastSeen, id, now + d)
                /\ sent' = <<Msg("playerJoined", open \ {id}, JoinedPayload(rec))>>
                           \o CatchUp(ps, id, 1)
    /\ open' = open \cup {id}
    /\ leftAt' = [leftAt EXCEPT ![id] = -1]
    /\ UNCHANGED <<halted, jitter, measured, client, laserBuffer, hitTimers, due, shots,
                   purged>>

----------------------------------------------------------------------------
(* channel.onDisconnect: the transport reports that channel id closed.     *)

\* the disconnected registry after the handler saved the active record of id
DisconnectSave(ps, disc, id) ==
    IF MapHas(ps, id) THEN MapSet(disc, id, MapGet(ps, id)) ELSE disc

\* (mutant) the last-seen entry is left behind
OnDisconnectKeepsSeen(st, id, to) ==
    [players |-> MapDelete(st.players, id),
     disc |-> DisconnectSave(st.players, st.disc, id),
     seen |-> st.seen,
     out |-> <<Msg("playerLeft", to, [id |-> id])>>]

\* the handler's effect on the registries st = [players, disc, seen] and the
\* message it emits to the channels in `to`
OnDisconnect(st, id, to) ==
    [players |-> MapDelete(st.players, id),
     disc |-> DisconnectSave(st.players, st.disc, id),
     seen |-> MapDelete(st.seen, id),
     out |-> <<Msg("playerLeft", to, [id |-> id])>>]

Disconnect(id) ==
    /\ last' = [op |-> "disconnect", id |-> id]
    /\ ~halted
    /\ NoTimerDue
    /\ id \in open
    /\ open' = open \ {id}
    /\ LET r == OnDisconnect(Registries, id, open \ {id})
       IN /\ players' = r.players
          /\ disconnectedPlayers' = r.disc
          /\ playerLastSeen' = r.seen
          /\ sent' = r.out
    /\ leftAt' = IF MapHas(players, id) THEN [leftAt EXCEPT ![id] = now] ELSE leftAt
    /\ UNCHANGED <<halted, jitter, measured, client, laserBuffer, hitTimers, due, now, shots, purged>>

----------------------------------------------------------------------------
(* channel.on('playerUpdate'): a client patch arrives on channel id.       *)

\* (mutant) a respawn restores the health and keeps the kills
RespawnKeepsKills(player, data) ==
    [player EXCEPT
        !.health = START_HEALTH,
        !.position = IF IsSome(data.position) THEN Val(data.position) ELSE @,
        !.rotation = IF IsSome(data.rotation) THEN Val(data.rotation) ELSE @,
        !.nickname = IF IsSome(data.nickname) /\ Val(data.nickname) # ""
                     THEN Val(data.nickname) ELSE @,
        !.colorIndex = IF IsSome(data.colorIndex) THEN Val(data.colorIndex) ELSE @]

\* (mutant) a respawn adds the starting health to what is left
RespawnAddsHealth(player, data) ==
    [player EXCEPT
        !.health = @ + START_HEALTH,
        !.kills = 0,
        !.position = IF IsSome(data.position) THEN Val(data.position) ELSE @,
        !.rotation = IF IsSome(data.rotation) THEN Val(data.rotation) ELSE @,
        !.nickname = IF IsSome(data.nickname) /\ Val(data.nickname) # ""
                     THEN Val(data.nickname) ELSE @,
        !.colorIndex = IF IsSome(data.colorIndex) THEN Val(data.colorIndex) ELSE @]

\* the respawn branch
RespawnUpdate(player, data) ==
    [player EXCEPT
        !.health = START_HEALTH,
        !.kills = 0,
        !.position = IF IsSome(data.position) THEN Val(data.position) ELSE @,
        !.rotation = IF IsSome(data.rotation) THEN Val(data.rotation) ELSE @,
        !.nickname = IF IsSome(data.nickname) /\ Val(data.nickname) # ""
                     THEN Val(data.nickname) ELSE @,
        !.colorIndex = IF IsSome(data.colorIndex) THEN Val(data.colorIndex) ELSE @]

\* (mutant) the regular branch copies every field of the patch
RegularUpdateCopiesAll(player, data) ==
    [player EXCEPT
        !.position = IF IsSome(data.position) THEN Val(data.position) ELSE @,
        !.rotation = IF IsSome(data.rotation) THEN Val(data.rotation) ELSE @,
        !.velocity = IF IsSome(data.velocity) THEN Val(data.velocity) ELSE @,
        !.nickname = IF IsSome(data.nickname) /\ Val(data.nickname) # ""
                     THEN Val(data.nickname) ELSE @,
        !.colorIndex = IF IsSome(data.colorIndex) THEN Val(data.colorIndex) ELSE @,
        !.health = IF IsSome(data.health) THEN Val(data.health) ELSE @,
        !.kills = IF IsSome(data.kills) THEN Val(data.kills) ELSE @]

\* the regular branch: position, rotation, velocity, nickname, colorIndex
RegularUpdate(player, data) ==
    [player EXCEPT
        !.position = IF IsSome(data.position) THEN Val(data.position) ELSE @,
        !.rotation = IF IsSome(data.rotation) THEN Val(data.rotation) ELSE @,
        !.velocity = IF IsSome(data.velocity) THEN Val(data.velocity) ELSE @,
        !.nickname = IF IsSome(data.nickname) /\ Val(data.nickname) # ""
                     THEN Val(data.nickname) ELSE @,
        !.colorIndex = IF IsSome(data.colorIndex) THEN Val(data.colorIndex) ELSE @]

\* the record of an active player after the handler ran at time t
ApplyUpdate(player, data, t) ==
    LET stamped == [player EXCEPT !.timestamp = t]
    IN IF data = Null THEN stamped      \* data.isRespawning throws
       ELSE IF data.isRespawning
            THEN RespawnUpdate(stamped, data)
            ELSE RegularUpdate(stamped, data)

\* reading data.isRespawning of a null payload throws a TypeError; the
\* handler catches nothing, and the lookup of an unknown id returns first
Throws(ps, id, data) == MapHas(ps, id) /\ data = Null

\* (mutant) an update from an id without an active record creates one
OnPlayerUpdateRevives(st, id, data, t, t2) ==
    [st EXCEPT !.seen = MapSet(st.seen, id, t),
               !.players = MapSet(st.players, id, NewPlayer(id, t2))]

\* (mutant) the last-seen time is refreshed before the record is looked up
OnPlayerUpdateStampsFirst(st, id, data, t, t2) ==
    IF ~MapHas(st.players, id)
    THEN [st EXCEPT !.seen = MapSet(st.seen, id, t)]
    ELSE [st EXCEPT !.seen = MapSet(st.seen, id, t),
                    !.players = MapSet(st.players, id,
                                       ApplyUpdate(MapGet(st.players, id), data, t2))]

\* the handler's effect on the registries st = [players, disc, seen]: an id
\* without an active record is logged and dropped; the last-seen time is the
\* first clock read t, the record's timestamp the second, t2
OnPlayerUpdate(st, id, data, t, t2) ==
    IF ~MapHas(st.players, id)
    THEN st
    ELSE [st EXCEPT !.seen = MapSet(st.seen, id, t),
                    !.players = MapSet(st.players, id,
                                       ApplyUpdate(MapGet(st.players, id), data, t2))]

PlayerUpdate(id, data) ==
    /\ last' = [op |-> "playerUpdate", id |-> id]
    /\ ~halted
    /\ NoTimerDue
    /\ id \in open
    /\ \E d \in jitter :
          /\ Slip(d)
          /\ IF MapHas(players, id) THEN TRUE ELSE d = 0   \* unknown id: no clock read
          /\ now' = now + d
          /\ LET r == OnPlayerUpdate(Registries, id, data, now, now + d)
             IN /\ players' = r.players
                /\ disconnectedPlayers' = r.disc
                /\ playerLastSeen' = r.seen
    /\ sent' = <<>>
    /\ halted' \in (IF Throws(players, id, data) THEN BOOLEAN ELSE {FALSE})
    /\ UNCHANGED <<jitter, measured, client, laserBuffer, hitTimers, due, open, shots,
                   leftAt, purged>>

\* the patches clients send in the exploration; a client may put any field
\* in a patch, health and kills included
NoFields ==
    [position |-> None, rotation |-> None, velocity |-> None, nickname |-> None,
     colorIndex |-> None, isRespawning |-> FALSE, health |-> None, kills |-> None]
PNear == <<0, 8, 0>>
PFar == <<0, 30, 0>>
Patches ==
    { NoFields,
      [NoFields EXCEPT !.position = Some(PNear), !.rotation = Some(<<0, 1, 0>>),
                       !.velocity = Some(7), !.nickname = Some("Ace"),
                       !.colorIndex = Some(3), !.health = Some(77), !.kills = Some(9)],
      [NoFields EXCEPT !.isRespawning = TRUE, !.position = Some(PFar),
                       !.rotation = Some(<<0, 0, 1>>), !.health = Some(1),
                       !.kills = Some(5)],
      [NoFields EXCEPT !.isRespawning = TRUE] }

----------------------------------------------------------------------------
(* pointLineDistance: distance from a point to the segment lineStart -     *)
(* lineEnd.  The model keeps the exact square of the distance as the       *)
(* fraction num / den; the code's Math.sqrt is monotone, so the handler's  *)
(* comparisons of distances are the comparisons of these squares.          *)

Dot(u, v) == u[1] * v[1] + u[2] * v[2] + u[3] * v[3]
Sub(u, v) == <<u[1] - v[1], u[2] - v[2], u[3] - v[3]>>

\* (mutant) the projection is not clamped: distance to the infinite line
pointLineDistanceUnclamped(point, lineStart, lineEnd) ==
    LET AB == Sub(lineEnd, lineStart)
        AP == Sub(point, lineStart)
        ab2 == Dot(AB, AB)
        apab == Dot(AP, AB)
    IN IF ab2 = 0 THEN [num |-> Dot(AP, AP), den |-> 1]
       ELSE [num |-> Dot(AP, AP) * ab2 - apab * apab, den |-> ab2]

pointLineDistance(point, lineStart, lineEnd) ==
    LET AB == Sub(lineEnd, lineStart)
        AP == Sub(point, lineStart)
        ab2 == Dot(AB, AB)
        apab == Dot(AP, AB)
    IN IF ab2 = 0 THEN [num |-> Dot(AP, AP), den |-> 1]
       ELSE IF apab <= 0 THEN [num |-> Dot(AP, AP), den |-> 1]          \* t = 0
       ELSE IF apab >= ab2                                              \* t = 1
            THEN [num |-> Dot(Sub(point, lineEnd), Sub(point, lineEnd)), den |-> 1]
       ELSE [num |-> Dot(AP, AP) * ab2 - apab * apab, den |-> ab2]      \* 0 < t < 1

\* (mutant) not greater
DistLessEq(d1, d2) == d1.num * d2.den <= d2.num * d1.den

\* distance d1 < distance d2
DistLess(d1, d2) == d1.num * d2.den < d2.num * d1.den
Infinity == [num |-> 1, den |-> 0]
Threshold == [num |-> hitThreshold * hitThreshold, den |-> 1]

----------------------------------------------------------------------------
(* channel.on('laserFire'): a fire event arrives on channel id.            *)

\* (mutant) the scan skips the shooter only
EligibleDead(otherId, other, id) == otherId # id

\* (mutant) the scan skips the dead only: a shooter can hit itself
EligibleSelf(otherId, other, id) == ~(other.health <= 0)

\* the scan skips the shooter and the dead
Eligible(otherId, other, id) == ~(otherId = id \/ other.health <= 0)

\* players.forEach of the scan: [id, dist] of the closest eligible player
\* found among ps[i..], starting from best
RECURSIVE ScanPlayers(_, _, _, _, _)
ScanPlayers(ps, id, data, i, best) ==
    IF i > Len(ps) THEN best
    ELSE LET other == ps[i].v
             distance == pointLineDistance(other.position, Val(data.startPosition),
                                           Val(data.endPosition))
         IN IF ~Eligible(ps[i].k, other, id)
            THEN ScanPlayers(ps, id, data, i + 1, best)
            ELSE IF DistLess(distance, Threshold) /\ DistLess(distance, best.dist)
                 THEN ScanPlayers(ps, id, data, i + 1,
                                  [id |-> Some(ps[i].k), dist |-> distance])
                 ELSE ScanPlayers(ps, id, data, i + 1, best)

\* (mutant) the scan visits the registry from its newest entry to its oldest
closestPlayerIdNewestFirst(ps, id, data) ==
    ScanPlayers([i \in 1..Len(ps) |-> ps[Len(ps) + 1 - i]], id, data, 1,
                [id |-> None, dist |-> Infinity]).id

closestPlayerId(ps, id, data) ==
    ScanPlayers(ps, id, data, 1, [id |-> None, dist |-> Infinity]).id

\* (mutant) every event is scanned
HitTargetIgnoresHint(ps, id, data) == closestPlayerId(ps, id, data)

\* (mutant) the scan runs for living shooters only
HitTargetOfLiving(ps, id, data) ==
    IF data.likelyHit /\ (IF MapHas(ps, id) THEN MapGet(ps, id).health > 0 ELSE TRUE)
    THEN closestPlayerId(ps, id, data) ELSE None

\* the player a well-formed event hits: the scan runs for likelyHit only
HitTarget(ps, id, data) ==
    IF data.likelyHit THEN closestPlayerId(ps, id, data) ELSE None

\* (mutant) a hit costs twice the damage
newHealthTwice(oldHealth) ==
    IF oldHealth - 2 * DAMAGE > 0 THEN oldHealth - 2 * DAMAGE ELSE 0

\* health after one hit
newHealth(oldHealth) == IF oldHealth - DAMAGE > 0 THEN oldHealth - DAMAGE ELSE 0

\* (mutant) every hit on a live target counts as a kill
IsKillAnyHit(oldHealth) == oldHealth > 0

\* a hit that takes the target from above 0 to 0
IsKill(oldHealth) == oldHealth > 0 /\ newHealth(oldHealth) = 0

\* kills of the shooter after a kill
CreditKill(shooter) == [shooter EXCEPT !.kills = @ + 1]

\* (mutant) the damage logic runs for shooters of the active registry only
ApplyHitKnownShooter(ps, id, target) ==
    LET oldHealth == MapGet(ps, target).health
        hurt == MapSet(ps, target, [MapGet(ps, target) EXCEPT !.health = newHealth(oldHealth)])
        credited == IF IsKill(oldHealth)
                    THEN MapSet(hurt, id, CreditKill(MapGet(hurt, id)))
                    ELSE hurt
        reset == IF IsKill(oldHealth)
                 THEN MapSet(credited, target, [MapGet(credited, target) EXCEPT !.kills = 0])
                 ELSE credited
    IN IF MapHas(ps, id)
       THEN MapSet(reset, target, [MapGet(reset, target) EXCEPT !.recentlyHit = TRUE])
       ELSE ps

\* the active registry after the damage logic ran for target
ApplyHit(ps, id, target) ==
    LET oldHealth == MapGet(ps, target).health
        hurt == MapSet(ps, target, [MapGet(ps, target) EXCEPT !.health = newHealth(oldHealth)])
        credited == IF IsKill(oldHealth) /\ MapHas(hurt, id)
                    THEN MapSet(hurt, id, CreditKill(MapGet(hurt, id)))
                    ELSE hurt
        reset == IF IsKill(oldHealth)
                 THEN MapSet(credited, target, [MapGet(credited, target) EXCEPT !.kills = 0])
                 ELSE credited
    IN MapSet(reset, target, [MapGet(reset, target) EXCEPT !.recentlyHit = TRUE])

\* (mutant) the queue has no cap
BufferEventNoCap(buf, id, data) ==
    LET queue == IF MapHas(buf, id) THEN MapGet(buf, id) ELSE <<>>
    IN MapSet(buf, id, Append(queue, [data EXCEPT !.shooterId = Some(id)]))

\* (mutant) the shooterId of the payload wins over the channel id
BufferEventTrustsClient(buf, id, data) ==
    LET queue == IF MapHas(buf, id) THEN MapGet(buf, id) ELSE <<>>
        tagged == IF IsSome(data.shooterId) THEN data
                  ELSE [data EXCEPT !.shooterId = Some(id)]
    IN IF Len(queue) < LASER_QUEUE_MAX
       THEN MapSet(buf, id, Append(queue, tagged))
       ELSE MapSet(buf, id, queue)

\* laserBuffer after the event was buffered for shooter id
BufferEvent(buf, id, data) ==
    LET queue == IF MapHas(buf, id) THEN MapGet(buf, id) ELSE <<>>
    IN IF Len(queue) < LASER_QUEUE_MAX
       THEN MapSet(buf, id, Append(queue, [data EXCEPT !.shooterId = Some(id)]))
       ELSE MapSet(buf, id, queue)

\* (mutant) the positions are required of an event with the hint only
WellFormedIfHinted(data) ==
    data # Null /\ (~data.likelyHit \/ (IsSome(data.startPosition) /\ IsSome(data.endPosition)))

WellFormed(data) ==
    data # Null /\ IsSome(data.startPosition) /\ IsSome(data.endPosition)

LaserFire(id, data, maxShots) ==
    /\ last' = [op |-> "laserFire", id |-> id]
    /\ ~halted
    /\ NoTimerDue
    /\ id \in open
    /\ shots < maxShots
    /\ shots' = shots + 1
    /\ sent' = <<>>
    /\ IF ~WellFormed(data)
       THEN UNCHANGED <<players, hitTimers, laserBuffer>>
       ELSE /\ LET target == HitTarget(players, id, data)
               IN IF IsSome(target)
                  THEN /\ players' = ApplyHit(players, id, Val(target))
                       /\ hitTimers' = hitTimers \cup
                              {[id |-> Val(target), at |-> now + RECENTLY_HIT_DELAY]}
                  ELSE UNCHANGED <<players, hitTimers>>
            /\ laserBuffer' = BufferEvent(laserBuffer, id, data)
    /\ UNCHANGED <<halted, jitter, measured, client, disconnectedPlayers, playerLastSeen, due, now, open, leftAt, purged>>

\* the fire events clients send in the exploration
Beam == [startPosition |-> Some(<<-5, 0, 0>>), endPosition |-> Some(<<5, 0, 0>>),
         likelyHit |-> TRUE, shooterId |-> None]
LaserEvents ==
    { Beam,
      [Beam EXCEPT !.likelyHit = FALSE],
      [Beam EXCEPT !.endPosition = None] }

----------------------------------------------------------------------------
(* The sweep timer (setInterval, 5 s).                                     *)

\* (mutant) the first loop compares the wrong way round and drops nothing old
PurgeNothingOld(disc, t) ==
    SelectSeq(disc, LAMBDA e : ~(e.v.timestamp - t > DISCONNECTED_PLAYER_TIMEOUT))

\* first loop: drop the disconnected records older than the grace period
PurgeExpired(disc, t) ==
    SelectSeq(disc, LAMBDA e : ~(t - e.v.timestamp > DISCONNECTED_PLAYER_TIMEOUT))

TimedOut(lastSeen, t) == t - lastSeen > PLAYER_TIMEOUT

\* (mutant) the second loop drops the record instead of saving it
SweepTimeoutDropsRecord(st, id, to) ==
    [players |-> MapDelete(st.players, id),
     disc |-> st.disc,
     seen |-> MapDelete(st.seen, id),
     out |-> st.out \o <<Msg("playerLeft", to, [id |-> id])>>]

\* (mutant) the second loop saves the record and leaves it in the active registry
SweepTimeoutKeepsActive(st, id, to) ==
    [players |-> st.players,
     disc |-> IF MapHas(st.players, id)
              THEN MapSet(st.disc, id, MapGet(st.players, id)) ELSE st.disc,
     seen |-> MapDelete(st.seen, id),
     out |-> st.out \o <<Msg("playerLeft", to, [id |-> id])>>]

\* body of the second loop for one timed-out id
SweepTimeout(st, id, to) ==
    [players |-> MapDelete(st.players, id),
     disc |-> IF MapHas(st.players, id)
              THEN MapSet(st.disc, id, MapGet(st.players, id)) ELSE st.disc,
     seen |-> MapDelete(st.seen, id),
     out |-> st.out \o <<Msg("playerLeft", to, [id |-> id])>>]

\* second loop: playerLastSeen.forEach over the entries seen[i..]
RECURSIVE SweepInactive(_, _, _, _, _)
SweepInactive(seen, i, st, t, to) ==
    IF i > Len(seen) THEN st
    ELSE IF TimedOut(seen[i].v, t)
         THEN SweepInactive(seen, i + 1, SweepTimeout(st, seen[i].k, to), t, to)
         ELSE SweepInactive(seen, i + 1, st, t, to)

SweepResult ==
    SweepInactive(playerLastSeen, 1,
                  [players |-> players,
                   disc |-> PurgeExpired(disconnectedPlayers, now),
                   seen |-> playerLastSeen, out |-> <<>>],
                  now, open)

Sweep ==
    /\ last' = [op |-> "sweep", id |-> ""]
    /\ ~halted
    /\ now >= due.sweep
    /\ due' = [due EXCEPT !.sweep = now + SWEEP_INTERVAL]
    /\ LET r == SweepResult
       IN /\ players' = r.players
          /\ disconnectedPlayers' = r.disc
          /\ playerLastSeen' = r.seen
          /\ sent' = r.out
          /\ leftAt' = [i \in Ids |->
                          IF MapHas(players, i) /\ ~MapHas(r.players, i) THEN now
                          ELSE leftAt[i]]
    /\ purged' = purged \cup (MapKeys(disconnectedPlayers)
                            \ MapKeys(PurgeExpired(disconnectedPlayers, now)))
    /\ UNCHANGED <<halted, jitter, measured, client, laserBuffer, hitTimers, now, open, shots>>

----------------------------------------------------------------------------
(* The laser flush timer (setInterval, 100 ms).                            *)

\* (mutant) the events of the first shooter only
FlattenFirst(buf, i) == IF Len(buf) = 0 THEN <<>> ELSE buf[1].v

RECURSIVE Flatten(_, _)
Flatten(buf, i) ==
    IF i > Len(buf) THEN <<>> ELSE buf[i].v \o Flatten(buf, i + 1)

LaserFlush ==
    /\ last' = [op |-> "laserFlush", id |-> ""]
    /\ ~halted
    /\ now >= due.laser
    /\ due' = [due EXCEPT !.laser = now + LASER_INTERVAL]
    /\ LET allLaserEvents == Flatten(laserBuffer, 1)
       IN sent' = IF Len(allLaserEvents) > 0
                  THEN <<Msg("laserFires", open, allLaserEvents)>> ELSE <<>>
    /\ laserBuffer' = <<>>
    /\ UNCHANGED <<halted, jitter, measured, client, players, disconnectedPlayers, playerLastSeen, hitTimers, now,
                   open, shots, leftAt, purged>>

----------------------------------------------------------------------------
(* The state sync timer (setInterval, SYNC_INTERVAL).                      *)

\* (mutant) the snapshot holds the first record only
allPlayersDataFirst(ps) ==
    [i \in 1..(IF Len(ps) > 0 THEN 1 ELSE 0) |-> [k |-> ps[i].k, v |-> JoinedPayload(ps[i].v)]]

allPlayersData(ps) == [i \in 1..Len(ps) |-> [k |-> ps[i].k, v |-> JoinedPayload(ps[i].v)]]

StateSync ==
    /\ last' = [op |-> "stateSync", id |-> ""]
    /\ ~halted
    /\ now >= due.sync
    /\ due' = [due EXCEPT !.sync = now + SYNC_INTERVAL]
    /\ sent' = IF Len(allPlayersData(players)) > 0
               THEN <<Msg("playerUpdate", open, allPlayersData(players))>> ELSE <<>>
    /\ UNCHANGED <<halted, jitter, measured, client, players, disconnectedPlayers, playerLastSeen, laserBuffer,
                   hitTimers, now, open, shots, leftAt, purged>>

----------------------------------------------------------------------------
(* The setTimeout callback of a hit: clears recentlyHit of an active id.   *)

ClearRecentlyHit(ps, id) ==
    IF MapHas(ps, id)
    THEN MapSet(ps, id, [MapGet(ps, id) EXCEPT !.recentlyHit = FALSE])
    ELSE ps

HitTimerFire(t) ==
    /\ last' = [op |-> "hitTimer", id |-> t.id]
    /\ ~halted
    /\ t \in hitTimers
    /\ now >= t.at
    /\ hitTimers' = hitTimers \ {t}
    /\ players' = ClearRecentlyHit(players, t.id)
    /\ sent' = <<>>
    /\ UNCHANGED <<halted, jitter, measured, client, disconnectedPlayers, playerLastSeen, laserBuffer, due, now, open,
                   shots, leftAt, purged>>

----------------------------------------------------------------------------
(* Time passes, once no timer callback is due.                             *)

Tick(step, maxTime) ==
    /\ last' = [op |-> "tick", id |-> ""]
    /\ ~halted
    /\ NoTimerDue
    /\ now + step <= maxTime
    /\ now' = now + step
    /\ sent' = <<>>
    /\ UNCHANGED <<halted, jitter, measured, client, players, disconnectedPlayers, playerLastSeen, laserBuffer,
                   hitTimers, due, open, shots, leftAt, purged>>

----------------------------------------------------------------------------
(* The server from start-up, the clock observed once per sweep period up   *)
(* to MaxTime, with clients that send keep-alive patches and fire a beam.  *)

\* channels of `movers` open and close; channels of `ids` carry patches
Lifecycle(movers, ids, patches) ==
    \/ \E id \in movers : Connect(id)
    \/ \E id \in movers : Disconnect(id)
    \/ \E id \in ids, data \in patches : PlayerUpdate(id, data)

Fire(ids, events, maxShots) ==
    \E id \in ids, data \in events : LaserFire(id, data, maxShots)

Intervals ==
    \/ Sweep
    \/ LaserFlush
    \/ StateSync

HitTimers ==
    \E t \in hitTimers : HitTimerFire(t)

MaxTime == MaxSweeps * SWEEP_INTERVAL

Next ==
    \/ Lifecycle(Ids, Ids, {NoFields})
    \/ Fire(Ids, {Beam}, MaxShots)
    \/ Intervals
    \/ HitTimers
    \/ Tick(SWEEP_INTERVAL, MaxTime)

Spec == Init /\ [][Next]_vars

----------------------------------------------------------------------------
(* Combat: the server in the middle of a game, at the sweep of time        *)
(* CombatStart.  Player b is active and has just sent a keep-alive.        *)
(* Player a either did the same, or has been silent since time 0 with its  *)
(* channel open, so that this sweep has just timed it out.  Earlier hits,  *)
(* kills and respawns left the two at any health, and at most one of them  *)
(* with a kill since its last death (a kill resets the victim's count).    *)
(* The hits are more than RECENTLY_HIT_DELAY old: their timers have run    *)
(* and the buffer has been flushed.  From here b stays connected, and a's  *)
(* channel may close and open again.                                       *)

CombatStart == PLAYER_TIMEOUT + SWEEP_INTERVAL
CombatHealth == {START_HEALTH, DAMAGE}
CombatKills == {<<1, 0>>}
CombatMovers == {"a"}

InitCombat ==
    \E ha \in CombatHealth, hb \in CombatHealth, ks \in CombatKills, silent \in BOOLEAN :
      LET a == [NewPlayer("a", IF silent THEN 0 ELSE CombatStart)
                    EXCEPT !.health = ha, !.kills = ks[1]]
          b == [NewPlayer("b", CombatStart) EXCEPT !.health = hb, !.kills = ks[2]]
      IN  /\ players = IF silent THEN <<[k |-> "b", v |-> b]>>
                       ELSE <<[k |-> "a", v |-> a], [k |-> "b", v |-> b]>>
          /\ disconnectedPlayers = IF silent THEN <<[k |-> "a", v |-> a]>> ELSE <<>>
          /\ playerLastSeen = IF silent THEN <<[k |-> "b", v |-> CombatStart]>>
                              ELSE <<[k |-> "a", v |-> CombatStart],
                                     [k |-> "b", v |-> CombatStart]>>
          /\ laserBuffer = <<>>
          /\ hitTimers = {}
          /\ due = [sweep |-> CombatStart + SWEEP_INTERVAL,
                    laser |-> CombatStart + LASER_INTERVAL,
                    sync |-> CombatStart + SYNC_INTERVAL]
          /\ now = CombatStart
          /\ open = {"a", "b"}
          /\ sent = <<>>
          /\ last = [op |-> "start", id |-> ""]
          /\ shots = 0
          /\ purged = {}
          /\ leftAt = [i \in Ids |-> IF silent /\ i = "a" THEN CombatStart ELSE -1]
          /\ halted = FALSE
          /\ jitter = {0}
          /\ measured = None
          /\ client = ClientLoaded

MaxTimeCombat == CombatStart + MaxSweepsCombat * SWEEP_INTERVAL

NextCombat ==
    \/ Lifecycle(CombatMovers, Ids, Patches)
    \/ Fire(Ids, LaserEvents, MaxShotsCombat)
    \/ Intervals
    \/ HitTimers
    \/ Tick(SWEEP_INTERVAL, MaxTimeCombat)

SpecCombat == InitCombat /\ [][NextCombat]_vars

----------------------------------------------------------------------------
(* Purge: connections that come, keep alive and go, with no shot fired,    *)
(* over more than a grace period.  The timers are fair: a callback that is *)
(* due runs, and time passes.                                              *)

MaxTimePurge == MaxSweepsPurge * SWEEP_INTERVAL

NextPurge ==
    \/ Lifecycle(Ids, Ids, {NoFields})
    \/ Intervals
    \/ Tick(SWEEP_INTERVAL, MaxTimePurge)

SpecPurge ==
    /\ Init
    /\ [][NextPurge]_vars
    /\ WF_vars(Sweep)
    /\ WF_vars(LaserFlush)
    /\ WF_vars(StateSync)
    /\ WF_vars(Tick(SWEEP_INTERVAL, MaxTimePurge))

----------------------------------------------------------------------------
(* Properties of the registry.                                             *)

\* every record of the two registries
Records(m) == {m[i].v : i \in 1..Len(m)}
AllRecords == Records(players) \cup Records(disconnectedPlayers)

\* a Map holds one entry per key, and a registry's record carries its key
OneRecordPerId(m) ==
    /\ \A i, j \in 1..Len(m) : m[i].k = m[j].k => i = j
    /\ \A i \in 1..Len(m) : m[i].v.id = m[i].k

\* C1. Registry invariant: in every reachable state no id is in both the
\* active and the disconnected registry, and the active registry holds
\* exactly one record for each of its ids.
C1_RegistryInvariant ==
    /\ MapKeys(players) \cap MapKeys(disconnectedPlayers) = {}
    /\ OneRecordPerId(players)
    /\ OneRecordPerId(disconnectedPlayers)

\* a sweep has just timed one player out while the other one is active
C1_Witness ==
    /\ last.op = "sweep"
    /\ Len(sent) > 0
    /\ players # <<>>
    /\ disconnectedPlayers # <<>>

\* C2. Health bound: the health of every record of the active and of the
\* disconnected registry is within [0, 100].
C2_HealthBound ==
    \A r \in AllRecords : 0 <= r.health /\ r.health <= START_HEALTH

\* a hit has just taken a player to health 0
C2_Witness ==
    /\ last.op = "laserFire"
    /\ \E r \in Records(players) : r.health = 0 /\ r.recentlyHit

\* C3. Kill coupling: a laserFire step that takes a victim's health from
\* above 0 to 0 adds exactly 1 to the kills of the shooter, whoever the
\* shooter is, and sets the victim's kills to 0.
C3_KillCoupling ==
    [][\A victim \in Ids :
         (/\ last'.op = "laserFire"
          /\ MapHas(players, victim) /\ MapGet(players, victim).health > 0
          /\ MapHas(players', victim) /\ MapGet(players', victim).health = 0)
         => /\ MapGet(players', victim).kills = 0
            /\ MapHas(players, last'.id) /\ MapHas(players', last'.id)
            /\ MapGet(players', last'.id).kills = MapGet(players, last'.id).kills + 1]_vars

\* C4. Reconnection preserves state: a connect of an id that is in the
\* disconnected registry makes the id active with the health and kills of the
\* stored record, removes it from the disconnected registry and leaves one
\* record for the id.
C4_ReconnectPreserves ==
    [][\A id \in Ids :
         (last'.op = "connect" /\ last'.id = id /\ MapHas(disconnectedPlayers, id))
         => /\ MapHas(players', id)
            /\ MapGet(players', id).health = MapGet(disconnectedPlayers, id).health
            /\ MapGet(players', id).kills = MapGet(disconnectedPlayers, id).kills
            /\ ~MapHas(disconnectedPlayers', id)
            /\ Cardinality({i \in 1..Len(players') : players'[i].k = id}) = 1]_vars

\* a connect has just restored a record with health 5 and one kill
C4_Witness ==
    /\ last.op = "connect"
    /\ MapHas(players, last.id)
    /\ MapGet(players, last.id).health = DAMAGE
    /\ MapGet(players, last.id).kills = 1
    /\ MapGet(players, last.id).timestamp = now

\* C5. Grace period measured from the disconnect: onDisconnect stamps the
\* record it stores with the current time; no sweep purges a record less
\* than DISCONNECTED_PLAYER_TIMEOUT after its id left the active registry;
\* and a connect within that time finds the record.
C5_GraceFromDisconnect ==
    [][\A id \in Ids :
         /\ (last'.op = "disconnect" /\ last'.id = id /\ MapHas(players, id))
              => MapGet(disconnectedPlayers', id).timestamp = now
         /\ (last'.op = "sweep" /\ MapHas(disconnectedPlayers, id)
                                /\ ~MapHas(disconnectedPlayers', id))
              => now - leftAt[id] >= DISCONNECTED_PLAYER_TIMEOUT
         /\ (last'.op = "connect" /\ last'.id = id /\ leftAt[id] >= 0
                                  /\ now - leftAt[id] < DISCONNECTED_PLAYER_TIMEOUT)
              => MapHas(disconnectedPlayers, id)]_vars

\* C6. Timeout purge: a record that entered the disconnected registry at
\* least a grace period before the end of the explored time leaves it:
\* the id reconnects, or a sweep removes the record and the id is then in
\* neither registry.
C6_TimeoutPurge ==
    \A id \in Ids :
        (MapHas(disconnectedPlayers, id)
            /\ leftAt[id] + DISCONNECTED_PLAYER_TIMEOUT < MaxTimePurge)
        ~> (~MapHas(disconnectedPlayers, id)
            /\ (MapHas(players, id) \/ last.op = "sweep"))

\* a sweep has just purged a record; its id is in neither registry
C6_Witness ==
    /\ last.op = "sweep"
    /\ \E id \in purged :
         /\ ~MapHas(disconnectedPlayers, id)
         /\ ~MapHas(players, id)
         /\ leftAt[id] >= 0
         /\ now - leftAt[id] > DISCONNECTED_PLAYER_TIMEOUT - PLAYER_TIMEOUT

\* the explicit disconnects of the ids of seen[i..] that have been silent for
\* more than PLAYER_TIMEOUT at time t, one after the other
RECURSIVE DisconnectEach(_, _, _, _)
DisconnectEach(seen, i, st, t) ==
    IF i > Len(seen) THEN st
    ELSE IF t - seen[i].v > PLAYER_TIMEOUT
         THEN LET r == OnDisconnect(st, seen[i].k, {})
              IN DisconnectEach(seen, i + 1,
                                [players |-> r.players, disc |-> r.disc,
                                 seen |-> r.seen, out |-> st.out \o r.out], t)
         ELSE DisconnectEach(seen, i + 1, st, t)

\* topic and payload of each message
Content(out) == [i \in 1..Len(out) |-> [topic |-> out[i].topic, payload |-> out[i].payload]]

\* C7. Timeout equals disconnect: what a sweep does to the active registry,
\* the disconnected registry and the last-seen map, and the playerLeft
\* messages it emits, are what explicit disconnects of the ids silent for
\* more than PLAYER_TIMEOUT do and emit from the same state.
C7_TimeoutEqualsDisconnect ==
    [][last'.op = "sweep" =>
         LET e == DisconnectEach(playerLastSeen, 1,
                                 [players |-> players,
                                  disc |-> PurgeExpired(disconnectedPlayers, now),
                                  seen |-> playerLastSeen, out |-> <<>>], now)
         IN /\ players' = e.players
            /\ disconnectedPlayers' = e.disc
            /\ playerLastSeen' = e.seen
            /\ Content(sent') = Content(e.out)]_vars

\* a sweep has just timed out a player and stored its record
C7_Witness ==
    /\ last.op = "sweep"
    /\ Len(sent) > 0
    /\ sent[1].topic = "playerLeft"
    /\ MapHas(disconnectedPlayers, sent[1].payload.id)
    /\ leftAt[sent[1].payload.id] = now
    /\ sent[1].payload.id \in open

\* health and kills of the records of a registry
HealthKills(m) ==
    [i \in 1..Len(m) |-> [id |-> m[i].k, health |-> m[i].v.health, kills |-> m[i].v.kills]]

\* C8. Health and kills are server-authoritative: a playerUpdate whose patch
\* does not set isRespawning leaves the health and kills of every record as
\* they were, whatever fields the patch has.
C8_ServerAuthoritative ==
    [][\A id \in Ids, data \in Patches :
         (PlayerUpdate(id, data) /\ ~data.isRespawning)
         => /\ HealthKills(players') = HealthKills(players)
            /\ HealthKills(disconnectedPlayers') = HealthKills(disconnectedPlayers)]_vars

\* a patch that carried health 77 and kills 9 has just been applied to a
\* record that is still at health 5
C8_Witness ==
    /\ last.op = "playerUpdate"
    /\ MapHas(players, last.id)
    /\ MapGet(players, last.id).nickname = "Ace"
    /\ MapGet(players, last.id).position = PNear
    /\ MapGet(players, last.id).timestamp = now
    /\ MapGet(players, last.id).health = DAMAGE

\* C9. Respawn: a playerUpdate with isRespawning from an active id sets that
\* record's health to 100 and its kills to 0, its position and rotation to
\* those of the patch, and changes no other record.
C9_Respawn ==
    [][\A id \in Ids, data \in Patches :
         (PlayerUpdate(id, data) /\ data.isRespawning /\ MapHas(players, id))
         => /\ MapHas(players', id)
            /\ MapGet(players', id).health = START_HEALTH
            /\ MapGet(players', id).kills = 0
            /\ IsSome(data.position) => MapGet(players', id).position = Val(data.position)
            /\ IsSome(data.rotation) => MapGet(players', id).rotation = Val(data.rotation)
            /\ MapKeys(players') = MapKeys(players)
            /\ \A other \in MapKeys(players) \ {id} :
                   MapGet(players', other) = MapGet(players, other)
            /\ disconnectedPlayers' = disconnectedPlayers]_vars

\* a respawn has just moved a player to PFar at full health, next to a
\* player that keeps its kill
C9_Witness ==
    /\ last.op = "playerUpdate"
    /\ MapHas(players, last.id)
    /\ MapGet(players, last.id).position = PFar
    /\ MapGet(players, last.id).rotation = <<0, 0, 1>>
    /\ MapGet(players, last.id).health = START_HEALTH
    /\ MapGet(players, last.id).kills = 0
    /\ MapGet(players, last.id).timestamp = now
    /\ \E r \in Records(players) : r.kills = 1

\* C10. Unknown-id update is a no-op: a playerUpdate on a channel whose id
\* is not in the active registry leaves the active registry, the
\* disconnected registry, the last-seen map and the laser buffer unchanged.
C10_UnknownIdUpdate ==
    [][\A id \in Ids, data \in Patches :
         (PlayerUpdate(id, data) /\ ~MapHas(players, id))
         => UNCHANGED <<players, disconnectedPlayers, playerLastSeen, laserBuffer>>]_vars

\* a patch has just arrived on the open channel of a timed-out id
C10_Witness ==
    /\ last.op = "playerUpdate"
    /\ last.id \in open
    /\ ~MapHas(players, last.id)
    /\ MapHas(disconnectedPlayers, last.id)
    /\ ~MapHas(playerLastSeen, last.id)

----------------------------------------------------------------------------
(* Hit scan.  Three players are active one sweep period after start-up: a  *)
(* at the origin fires along the x axis; b and c are anywhere around the   *)
(* beam, alive, one hit from death, or dead and waiting for a respawn.     *)
(* The clock is observed once per flush period, for less than              *)
(* RECENTLY_HIT_DELAY.                                                     *)

ScanIds == {"a", "b", "c"}
ScanStart == SWEEP_INTERVAL
\* distance to the beam: 8, 6, exactly 10, 30, exactly 10 from the end of
\* the segment (8 from the line through it), 5 from the end of the segment
ScanPositions ==
    { PNear, <<0, 6, 0>>, <<0, 10, 0>>, PFar, <<11, 8, 0>>, <<8, 4, 0>> }
ScanHealth == {START_HEALTH, DAMAGE, 0}
Respawn == [NoFields EXCEPT !.isRespawning = TRUE]

InitScan ==
    \E pb \in ScanPositions, pc \in ScanPositions, hb \in ScanHealth, hc \in ScanHealth :
      LET a == NewPlayer("a", ScanStart)
          b == [NewPlayer("b", ScanStart) EXCEPT !.position = pb, !.health = hb]
          c == [NewPlayer("c", ScanStart) EXCEPT !.position = pc, !.health = hc,
                                                 !.kills = IF hc > 0 THEN 1 ELSE 0]
      IN  /\ players = <<[k |-> "a", v |-> a], [k |-> "b", v |-> b], [k |-> "c", v |-> c]>>
          /\ disconnectedPlayers = <<>>
          /\ playerLastSeen = [i \in 1..3 |-> [k |-> players[i].k, v |-> ScanStart]]
          /\ laserBuffer = <<>>
          /\ hitTimers = {}
          /\ due = [sweep |-> ScanStart + SWEEP_INTERVAL,
                    laser |-> ScanStart + LASER_INTERVAL,
                    sync |-> ScanStart + SYNC_INTERVAL]
          /\ now = ScanStart
          /\ open = ScanIds
          /\ sent = <<>>
          /\ last = [op |-> "start", id |-> ""]
          /\ shots = 0
          /\ purged = {}
          /\ leftAt = [i \in Ids |-> -1]
          /\ halted = FALSE
          /\ jitter = {0}
          /\ measured = None
          /\ client = ClientLoaded

MaxTimeScan == ScanStart + MaxTicksScan * LASER_INTERVAL

NextScan ==
    \/ Fire({"a"}, {Beam, [Beam EXCEPT !.likelyHit = FALSE]}, MaxShotsScan)
    \/ \E id \in {"b", "c"} : PlayerUpdate(id, Respawn)
    \/ LaserFlush
    \/ StateSync
    \/ Tick(LASER_INTERVAL, MaxTimeScan)

SpecScan == InitScan /\ [][NextScan]_vars

----------------------------------------------------------------------------
(* Broadcast.  The server from start-up with the clock observed once per   *)
(* flush period, for less than RECENTLY_HIT_DELAY: channels open and       *)
(* close, send keep-alive patches and fire events that are well-formed,    *)
(* carry a shooterId of their own, lack a position or have no payload.     *)

Forged == [Beam EXCEPT !.likelyHit = FALSE, !.shooterId = Some("z")]
NoStart == [Beam EXCEPT !.startPosition = None]
NoEnd == [Beam EXCEPT !.endPosition = None, !.likelyHit = FALSE]
Malformed == {NoStart, NoEnd, Null}
BroadcastEvents == {Beam, Forged} \cup Malformed

MaxTimeBroadcast == MaxTicksBroadcast * LASER_INTERVAL

NextBroadcast ==
    \/ Lifecycle(Ids, Ids, {NoFields})
    \/ Fire(Ids, BroadcastEvents, MaxShotsBroadcast)
    \/ LaserFlush
    \/ StateSync
    \/ Tick(LASER_INTERVAL, MaxTimeBroadcast)

SpecBroadcast == Init /\ [][NextBroadcast]_vars

----------------------------------------------------------------------------
(* Properties of the hit resolution.                                       *)

ScanEvents == {Beam, [Beam EXCEPT !.likelyHit = FALSE]}

\* the square of the distance from a position of the exploration to the
\* segment of Beam, by geometry: the segment runs from x = -5 to x = 5 on
\* the x axis
ScanSquare(p) ==
    LET dx == IF p[1] > 5 THEN p[1] - 5 ELSE IF p[1] < -5 THEN -5 - p[1] ELSE 0
    IN dx * dx + p[2] * p[2] + p[3] * p[3]

\* indices of the active registry whose record lost health in this step
Hurt == {i \in 1..Len(players) : players'[i].v.health # players[i].v.health}

\* the event the shooter buffered last
LastBuffered(id) == MapGet(laserBuffer, id)[Len(MapGet(laserBuffer, id))]

\* C11. The client hint is only a gate: a well-formed laserFire without
\* likelyHit changes no player record and starts no recentlyHit timer, and
\* one with likelyHit takes health only from a player that is less than
\* hitThreshold from the segment.
C11_HintIsGate ==
    [][\A data \in ScanEvents :
         LaserFire("a", data, MaxShotsScan)
         => /\ ~data.likelyHit => (players' = players /\ hitTimers' = hitTimers)
            /\ data.likelyHit =>
                 \A i \in Hurt :
                    ScanSquare(players[i].v.position) < hitThreshold * hitThreshold]_vars

\* an event without the hint has just passed a living player 8 from the
\* beam, who is unhurt
C11_Witness ==
    /\ last.op = "laserFire"
    /\ MapHas(laserBuffer, "a")
    /\ ~LastBuffered("a").likelyHit
    /\ hitTimers = {}
    /\ MapGet(players, "b").position = PNear
    /\ MapGet(players, "b").health = START_HEALTH
    /\ ~MapGet(players, "b").recentlyHit

\* C12. Victim selection: a laserFire with likelyHit hurts at most one
\* player, a living player other than the shooter that is strictly less
\* than 10 from the segment and no farther from it than any other living
\* player; it hurts one if there is such a player, and changes no record if
\* there is none.
C12_VictimSelection ==
    [][LaserFire("a", Beam, MaxShotsScan)
         => LET candidates == {i \in 1..Len(players) :
                                  players[i].k # "a" /\ players[i].v.health > 0}
                square(i) == ScanSquare(players[i].v.position)
            IN /\ Cardinality(Hurt) <= 1
               /\ \A i \in Hurt :
                     /\ i \in candidates
                     /\ square(i) < 100
                     /\ \A j \in candidates : square(i) <= square(j)
               /\ (\E j \in candidates : square(j) < 100) => Hurt # {}
               /\ Hurt = {} => players' = players]_vars

\* the beam has just hit c, 6 from it, and not b, 8 from it and scanned
\* first
C12_Witness ==
    /\ last.op = "laserFire"
    /\ MapGet(players, "b").position = PNear
    /\ MapGet(players, "b").health = START_HEALTH
    /\ ~MapGet(players, "b").recentlyHit
    /\ MapGet(players, "c").position = <<0, 6, 0>>
    /\ MapGet(players, "c").health = START_HEALTH - DAMAGE
    /\ MapGet(players, "c").recentlyHit

C14_DamagePerHit ==
    [][\A data \in ScanEvents :
         (LaserFire("a", data, MaxShotsScan) /\ IsSome(HitTarget(players, "a", data)))
         => LET victim == Val(HitTarget(players, "a", data))
                h == MapGet(players, victim).health
            IN /\ MapGet(players', victim).health = IF h - 5 > 0 THEN h - 5 ELSE 0
               /\ MapGet(players', victim).recentlyHit
               /\ h > 5 => MapGet(players', "a").kills = MapGet(players, "a").kills]_vars

\* a at full health has just hit b: b is at 95 with recentlyHit set, a has
\* no kill
C14_Witness ==
    /\ last.op = "laserFire"
    /\ shots = 1
    /\ MapGet(players, "a").health = START_HEALTH
    /\ MapGet(players, "a").kills = 0
    /\ MapGet(players, "b").health = 95
    /\ MapGet(players, "b").recentlyHit

----------------------------------------------------------------------------
(* Properties of the laser buffer and of the broadcasts.                   *)

\* the queue of a shooter, empty when the buffer has no entry for it
Queue(buf, id) == IF MapHas(buf, id) THEN MapGet(buf, id) ELSE <<>>

\* C15. Malformed laser-fire events are dropped: a laserFire without
\* payload, without startPosition or without endPosition changes no player
\* record, starts no timer and leaves the laser buffer as it was.
C15_MalformedDropped ==
    [][\A id \in Ids, data \in Malformed :
         LaserFire(id, data, MaxShotsBroadcast)
         => UNCHANGED <<players, disconnectedPlayers, playerLastSeen,
                        hitTimers, laserBuffer>>]_vars

\* the first event of a behaviour came from a, in line with b, and left
\* no trace
C15_Witness ==
    /\ last = [op |-> "laserFire", id |-> "a"]
    /\ shots = 1
    /\ now = 0
    /\ laserBuffer = <<>>
    /\ MapHas(players, "a")
    /\ MapHas(players, "b")
    /\ MapGet(players, "b").health = START_HEALTH

\* C17. Laser buffer bound: after every step each queue of the laser
\* buffer holds at most 2 events, and a well-formed laserFire appends its
\* event to the shooter's queue if that holds fewer than 2 and leaves the
\* queue as it is otherwise.
C17_BufferBound ==
    [][/\ \A i \in 1..Len(laserBuffer') : Len(laserBuffer'[i].v) <= 2
       /\ \A id \in Ids, data \in BroadcastEvents \ Malformed :
            LaserFire(id, data, MaxShotsBroadcast)
            => LET queue == Queue(laserBuffer, id)
                   after == Queue(laserBuffer', id)
               IN IF Len(queue) < 2
                  THEN /\ Len(after) = Len(queue) + 1
                       /\ SubSeq(after, 1, Len(queue)) = queue
                       /\ after[Len(after)].startPosition = data.startPosition
                       /\ after[Len(after)].endPosition = data.endPosition
                       /\ after[Len(after)].likelyHit = data.likelyHit
                  ELSE after = queue]_vars

\* a has fired three beams at b before the first flush: two are queued
C17_Witness ==
    /\ last = [op |-> "laserFire", id |-> "a"]
    /\ now = 0
    /\ shots = 3
    /\ MapHas(players, "b")
    /\ MapGet(players, "b").health = START_HEALTH - 3 * DAMAGE
    /\ Len(Queue(laserBuffer, "a")) = 2
    /\ ~MapHas(laserBuffer, "b")

\* the places <<i, j>> of the events of a buffer
Places(buf) == UNION {{<<i, j>> : j \in 1..Len(buf[i].v)} : i \in 1..Len(buf)}

\* C18. Laser flush: a flush empties the buffer; it sends nothing when the
\* buffer holds no event and otherwise one laserFires message, to every
\* open channel, that holds each buffered event as often as the buffer
\* does; and no other step takes an event out of the buffer.
C18_LaserFlush ==
    [][/\ last'.op = "laserFlush"
            => /\ laserBuffer' = <<>>
               /\ Places(laserBuffer) = {} => sent' = <<>>
               /\ Places(laserBuffer) # {}
                    => /\ Len(sent') = 1
                       /\ sent'[1].topic = "laserFires"
                       /\ sent'[1].to = open
                       /\ Len(sent'[1].payload) = Cardinality(Places(laserBuffer))
                       /\ \A p \in Places(laserBuffer) :
                            LET ev == laserBuffer[p[1]].v[p[2]]
                            IN Cardinality({n \in 1..Len(sent'[1].payload) :
                                               sent'[1].payload[n] = ev})
                               = Cardinality({q \in Places(laserBuffer) :
                                                 laserBuffer[q[1]].v[q[2]] = ev})
       /\ last'.op # "laserFlush"
            => /\ \A m \in 1..Len(sent') : sent'[m].topic # "laserFires"
               /\ \A id \in MapKeys(laserBuffer) :
                    /\ Len(Queue(laserBuffer', id)) >= Len(Queue(laserBuffer, id))
                    /\ SubSeq(Queue(laserBuffer', id), 1, Len(Queue(laserBuffer, id)))
                         = Queue(laserBuffer, id)]_vars

\* a flush has just sent the events of both shooters to both of them
C18_Witness ==
    /\ last.op = "laserFlush"
    /\ Len(sent) = 1
    /\ sent[1].to = {"a", "b"}
    /\ \E n, m \in 1..Len(sent[1].payload) :
         /\ sent[1].payload[n].shooterId = Some("a")
         /\ sent[1].payload[m].shooterId = Some("b")
    /\ laserBuffer = <<>>

\* C19. shooterId is server-assigned: every event a laserFire buffers is
\* queued under the id of its channel and carries that id as shooterId,
\* whatever shooterId the payload had, and every event of a laserFires
\* message is an event of the buffer.
C19_ShooterIdAssigned ==
    [][/\ \A id \in Ids, data \in BroadcastEvents :
            LaserFire(id, data, MaxShotsBroadcast)
            => /\ \A other \in MapKeys(laserBuffer') \ {id} :
                    Queue(laserBuffer', other) = Queue(laserBuffer, other)
               /\ \A j \in 1..Len(Queue(laserBuffer', id)) :
                    Queue(laserBuffer', id)[j].shooterId = Some(id)
       /\ last'.op = "laserFlush"
            => \A m \in 1..Len(sent') : \A n \in 1..Len(sent'[m].payload) :
                  \E p \in Places(laserBuffer) :
                     /\ sent'[m].payload[n] = laserBuffer[p[1]].v[p[2]]
                     /\ sent'[m].payload[n].shooterId = Some(laserBuffer[p[1]].k)]_vars

\* a flush has just sent an event that came from a with shooterId z
C19_Witness ==
    /\ last.op = "laserFlush"
    /\ Len(sent) = 1
    /\ \E n \in 1..Len(sent[1].payload) :
         /\ ~sent[1].payload[n].likelyHit
         /\ sent[1].payload[n].shooterId = Some("a")

\* C20. State sync: time passes only after the sync that was due has run,
\* and the next one is due a SYNC_INTERVAL later; a sync sends nothing when
\* the active registry is empty and otherwise one playerUpdate message, to
\* every open channel, with one entry per active id that holds the health
\* and kills of its record.
C20_StateSync ==
    [][/\ now' # now => (due.sync = now + SYNC_INTERVAL /\ due.sync <= now')
       /\ last'.op = "stateSync"
            => /\ due'.sync = now + SYNC_INTERVAL
               /\ players = <<>> => sent' = <<>>
               /\ players # <<>>
                    => /\ Len(sent') = 1
                       /\ sent'[1].topic = "playerUpdate"
                       /\ sent'[1].to = open
                       /\ MapKeys(sent'[1].payload) = MapKeys(players)
                       /\ MapKeys(sent'[1].payload) \cap MapKeys(disconnectedPlayers) = {}
                       /\ OneRecordPerId(sent'[1].payload)
                       /\ \A id \in MapKeys(players) :
                            /\ MapGet(sent'[1].payload, id).health = MapGet(players, id).health
                            /\ MapGet(sent'[1].payload, id).kills = MapGet(players, id).kills
       /\ last'.op # "stateSync"
            => \A m \in 1..Len(sent') : sent'[m].topic # "playerUpdate"]_vars

\* the first sync of a behaviour has just sent a snapshot of a, hurt,
\* while b is in the disconnected registry
C20_Witness ==
    /\ last.op = "stateSync"
    /\ now = SYNC_INTERVAL
    /\ Len(sent) = 1
    /\ MapKeys(sent[1].payload) = {"a"}
    /\ MapGet(sent[1].payload, "a").health = START_HEALTH - DAMAGE
    /\ MapHas(disconnectedPlayers, "b")

----------------------------------------------------------------------------
(* Faults.  The server from start-up with clients whose patches are        *)
(* keep-alives or have no payload at all.                                  *)

FaultPatches == {NoFields, Null}

NextFault ==
    \/ Lifecycle(Ids, Ids, FaultPatches)
    \/ Intervals
    \/ Tick(SWEEP_INTERVAL, MaxTime)

SpecFault == Init /\ [][NextFault]_vars

\* C16. Per-connection error isolation: handling a playerUpdate without
\* payload throws no error, does not end the process and with it the
\* timers, and changes the record of no other connection.
C16_ErrorIsolation ==
    [][\A id \in Ids :
         PlayerUpdate(id, Null)
         => /\ ~Throws(players, id, Null)
            /\ ~halted'
            /\ disconnectedPlayers' = disconnectedPlayers
            /\ \A other \in MapKeys(players) \ {id} :
                  /\ MapHas(players', other)
                  /\ MapGet(players', other) = MapGet(players, other)
                  /\ MapGet(playerLastSeen', other) = MapGet(playerLastSeen, other)]_vars

----------------------------------------------------------------------------
(* Connections.                                                            *)

\* C21: a connection whose id has no record in the disconnected registry
\* gets an active record with health 100, kills 0, nickname "Unknown",
\* colorIndex 0, velocity 0, position and rotation at the origin, and the
\* handler leaves every other active record as it was.
C21_FreshConnect ==
    [][\A id \in Ids :
         (last'.op = "connect" /\ last'.id = id /\ ~MapHas(disconnectedPlayers, id))
         => /\ MapKeys(players') = MapKeys(players) \cup {id}
            /\ LET p == MapGet(players', id)
               IN /\ p.id = id
                  /\ p.health = 100 /\ p.kills = 0
                  /\ p.nickname = "Unknown" /\ p.colorIndex = 0
                  /\ p.velocity = 0
                  /\ p.position = <<0, 0, 0>> /\ p.rotation = <<0, 0, 0>>
            /\ \A o \in MapKeys(players) \ {id} :
                  MapGet(players', o) = MapGet(players, o)]_vars

\* b has just connected for the first time, next to a, whose record is one
\* sweep period old
C21_Witness ==
    /\ last = [op |-> "connect", id |-> "b"]
    /\ now = SWEEP_INTERVAL
    /\ purged = {} /\ disconnectedPlayers = <<>>
    /\ MapKeys(players) = {"a", "b"}
    /\ MapGet(players, "a").timestamp = 0
    /\ MapGet(players, "b").health = START_HEALTH
    /\ MapGet(players, "b").timestamp = now

\* C22: on every connection, of a new id or a returning one, one playerJoined
\* with the connecting id's record goes to every other open channel and not
\* to the connecting one, and the connecting channel gets exactly one
\* playerJoined for each other active record, none for itself and none for
\* an id of the disconnected registry.
C22_JoinNotification ==
    [][\A id \in Ids :
         (last'.op = "connect" /\ last'.id = id)
         => LET rec == MapGet(players', id)
                all == 1..Len(sent')
                others == {i \in all : id \notin sent'[i].to}
                own == {i \in all : id \in sent'[i].to}
            IN /\ \A i \in all : sent'[i].topic = "playerJoined"
               /\ Cardinality(others) = 1
               /\ \A i \in others :
                     /\ sent'[i].to = open' \ {id}
                     /\ sent'[i].payload.id = id
                     /\ sent'[i].payload.health = rec.health
                     /\ sent'[i].payload.kills = rec.kills
                     /\ sent'[i].payload.nickname = rec.nickname
                     /\ sent'[i].payload.colorIndex = rec.colorIndex
                     /\ sent'[i].payload.position = rec.position
                     /\ sent'[i].payload.rotation = rec.rotation
                     /\ sent'[i].payload.velocity = rec.velocity
               /\ \A i \in own :
                     /\ sent'[i].to = {id}
                     /\ sent'[i].payload.id # id
                     /\ ~MapHas(disconnectedPlayers', sent'[i].payload.id)
                     /\ MapHas(players', sent'[i].payload.id)
                     /\ sent'[i].payload = MapGet(players', sent'[i].payload.id)
               /\ \A o \in MapKeys(players') \ {id} :
                     Cardinality({i \in own : sent'[i].payload.id = o}) = 1]_vars

\* a comes back one hit down: b's channel is told of the restored record,
\* a's channel of b's
C22_Witness ==
    /\ last = [op |-> "connect", id |-> "a"]
    /\ Len(sent) = 2
    /\ sent[1].to = {"b"} /\ sent[1].payload.id = "a"
    /\ sent[1].payload.health = START_HEALTH - DAMAGE
    /\ sent[2].to = {"a"} /\ sent[2].payload.id = "b"

----------------------------------------------------------------------------
(* The end of a grace period: the server at the sweep of time GraceStart.  *)
(* Player a connected at time 0, scored a kill, was hit down to DAMAGE and  *)
(* sent nothing more; it left the active registry through a timeout (its   *)
(* channel still open) or through a disconnect, and its record has waited  *)
(* in the disconnected registry since.  Player b is active and has just    *)
(* sent a keep-alive.  The next sweep purges a's record.                   *)

GraceStart == DISCONNECTED_PLAYER_TIMEOUT
GraceRecord == [NewPlayer("a", 0) EXCEPT !.health = DAMAGE, !.kills = 1]

InitGrace ==
    /\ players = <<[k |-> "b", v |-> NewPlayer("b", GraceStart)]>>
    /\ disconnectedPlayers = <<[k |-> "a", v |-> GraceRecord]>>
    /\ playerLastSeen = <<[k |-> "b", v |-> GraceStart]>>
    /\ laserBuffer = <<>>
    /\ hitTimers = {}
    /\ now = GraceStart
    /\ due = [sweep |-> now + SWEEP_INTERVAL, laser |-> now + LASER_INTERVAL,
              sync |-> now + SYNC_INTERVAL]
    /\ \E timedOut \in BOOLEAN :
          /\ open = IF timedOut THEN {"a", "b"} ELSE {"b"}
          /\ leftAt = [i \in Ids |-> IF i # "a" THEN -1
                                     ELSE IF timedOut THEN PLAYER_TIMEOUT + SWEEP_INTERVAL
                                     ELSE SWEEP_INTERVAL]
    /\ sent = <<>>
    /\ last = [op |-> "start", id |-> ""]
    /\ shots = 0
    /\ purged = {}
    /\ halted = FALSE
    /\ jitter = {0}
    /\ measured = None
    /\ client = ClientLoaded

MaxTimeGrace == GraceStart + MaxSweepsGrace * SWEEP_INTERVAL

NextGrace ==
    \/ Lifecycle(Ids, Ids, {NoFields})
    \/ Intervals
    \/ Tick(SWEEP_INTERVAL, MaxTimeGrace)

SpecGrace == InitGrace /\ [][NextGrace]_vars

\* C23: purged is terminal; once an id has been purged, no later event
\* moves that id back into the active or the disconnected registry.
C23_PurgedTerminal ==
    \A id \in purged : ~MapHas(players, id) /\ ~MapHas(disconnectedPlayers, id)

\* C23, amended: purged is terminal for the record, not for the id.  The
\* sweep that purges an id leaves it in neither registry; from then on no
\* update, disconnect or timer puts the id back in a registry, and a later
\* connection with that id enters the active registry with a new record of
\* health 100 and kills 0, never with the purged one.
C23_PurgedRecordGone ==
    [][\A id \in Ids :
         LET gone == ~MapHas(players, id) /\ ~MapHas(disconnectedPlayers, id)
             gone2 == ~MapHas(players', id) /\ ~MapHas(disconnectedPlayers', id)
         IN /\ (id \in purged' \ purged) => gone2
            /\ (id \in purged /\ gone)
               => \/ gone2
                  \/ /\ last' = [op |-> "connect", id |-> id]
                     /\ MapHas(players', id)
                     /\ ~MapHas(disconnectedPlayers', id)
                     /\ MapGet(players', id).health = 100
                     /\ MapGet(players', id).kills = 0]_vars

\* a, purged with health DAMAGE and one kill, has connected again
C23_Witness ==
    /\ last = [op |-> "connect", id |-> "a"]
    /\ "a" \in purged
    /\ MapHas(players, "a")
    /\ MapGet(players, "a").health = START_HEALTH
    /\ MapGet(players, "a").kills = 0
    /\ MapGet(players, "a").timestamp = now

----------------------------------------------------------------------------
(* The recentlyHit flag: the server from start-up, the clock observed      *)
(* twice per reset delay, so that a second hit can fall between a hit and  *)
(* the callback that resets its flag.                                      *)

FlagStep == RECENTLY_HIT_DELAY \div 2
MaxTimeFlag == MaxTicksFlag * FlagStep

NextFlag ==
    \/ Lifecycle(Ids, Ids, {NoFields})
    \/ Fire(Ids, {Beam}, MaxShotsFlag)
    \/ LaserFlush
    \/ StateSync
    \/ HitTimers
    \/ Tick(FlagStep, MaxTimeFlag)

SpecFlag == Init /\ [][NextFlag]_vars

\* the stored record of id, in whichever registry holds it, has the flag set
Flagged(id) ==
    \/ MapHas(players, id) /\ MapGet(players, id).recentlyHit
    \/ MapHas(disconnectedPlayers, id) /\ MapGet(disconnectedPlayers, id).recentlyHit

\* C24: recentlyHit is transient; after a hit the flag returns to false
\* once the reset delay has passed without a further hit, also when the
\* victim disconnects, times out or reconnects while the flag is set.  A
\* flag that is set therefore always has a reset callback still to run.
C24_FlagTransient ==
    \A id \in Ids : Flagged(id) => \E t \in hitTimers : t.id = id

\* C25: reset timers are superseded, not stacked; the flag of a player who
\* is hit again before the reset of an earlier hit keeps the flag until
\* the reset delay after the most recent hit, so no step clears a flag
\* while the reset of a later hit is still ahead.
C25_TimerSuperseded ==
    [][\A id \in Ids :
         (/\ MapHas(players, id) /\ MapGet(players, id).recentlyHit
          /\ MapHas(players', id) /\ ~MapGet(players', id).recentlyHit)
         => \A t \in hitTimers' : t.id = id => t.at <= now']_vars

----------------------------------------------------------------------------
(* pointLineDistance on its own: a point and a segment are drawn, and the  *)
(* function is applied to them once.                                       *)

MeasurePoints ==
    { <<0, 0, 0>>, <<3, 4, 0>>, <<1, 2, 2>>, <<-2, 1, 0>>,
      <<6, 0, 0>>, <<2, 0, 3>>, <<1, 1, 1>>, <<5, -3, 1>> }

\* [start, end]: along an axis in both directions, diagonal, off the axes,
\* and a segment of length 0
MeasureSegments ==
    { <<<<1, 0, 0>>, <<2, 0, 0>>>>, <<<<0, 0, 0>>, <<4, 0, 0>>>>,
      <<<<4, 0, 0>>, <<0, 0, 0>>>>, <<<<0, 0, 0>>, <<2, 2, 0>>>>,
      <<<<-1, 1, 0>>, <<1, 1, 2>>>>, <<<<0, 0, 0>>, <<0, 4, 0>>>>,
      <<<<1, 1, 1>>, <<1, 1, 1>>>> }

InitDistance ==
    /\ players = <<>>
    /\ disconnectedPlayers = <<>>
    /\ playerLastSeen = <<>>
    /\ laserBuffer = <<>>
    /\ hitTimers = {}
    /\ due = [sweep |-> SWEEP_INTERVAL, laser |-> LASER_INTERVAL, sync |-> SYNC_INTERVAL]
    /\ now = 0
    /\ open = {}
    /\ sent = <<>>
    /\ last = [op |-> "start", id |-> ""]
    /\ shots = 0
    /\ purged = {}
    /\ leftAt = [i \in Ids |-> -1]
    /\ halted = FALSE
    /\ jitter = {0}
    /\ client = ClientLoaded
    /\ \E p \in MeasurePoints, seg \in MeasureSegments :
          measured = Some([point |-> p, lineStart |-> seg[1], lineEnd |-> seg[2],
                           distance |-> None])

\* the call pointLineDistance(point, lineStart, lineEnd)
Measure ==
    /\ last' = [op |-> "pointLineDistance", id |-> ""]
    /\ IsSome(measured)
    /\ ~IsSome(Val(measured).distance)
    /\ LET m == Val(measured)
       IN measured' = Some([m EXCEPT !.distance =
                               Some(pointLineDistance(m.point, m.lineStart, m.lineEnd))])
    /\ UNCHANGED <<players, disconnectedPlayers, playerLastSeen, laserBuffer, hitTimers,
                   due, now, open, sent, shots, purged, leftAt, halted, jitter, client>>

SpecDistance == InitDistance /\ [][Measure]_vars

\* the segment is sampled at the parameters k / SegmentSamples
SegmentSamples == 4

\* SegmentSamples^2 times the squared distance from p to the sample k of
\* the segment from a to b
SampleSquare(p, a, b, k) ==
    LET w == <<SegmentSamples * (p[1] - a[1]) - k * (b[1] - a[1]),
               SegmentSamples * (p[2] - a[2]) - k * (b[2] - a[2]),
               SegmentSamples * (p[3] - a[3]) - k * (b[3] - a[3])>>
    IN w[1] * w[1] + w[2] * w[2] + w[3] * w[3]

\* C26: pointLineDistance returns the distance from the point to the
\* closest point of the finite segment: no point of the segment is closer
\* than the result and one point of the segment is at exactly that
\* distance (the segments drawn have their closest point on a sample);
\* for P = (0,0,0) and the segment (1,0,0)-(2,0,0) the result is 1, and
\* for a segment of length 0 it is the distance to that point.
C26_PointLineDistance ==
    (IsSome(measured) /\ IsSome(Val(measured).distance))
    => LET m == Val(measured)
           d == Val(m.distance)
           n2 == SegmentSamples * SegmentSamples
           Sq(k) == SampleSquare(m.point, m.lineStart, m.lineEnd, k)
       IN /\ d.den > 0 /\ d.num >= 0
          /\ \A k \in 0..SegmentSamples : d.num * n2 <= Sq(k) * d.den
          /\ \E k \in 0..SegmentSamples : d.num * n2 = Sq(k) * d.den
          /\ (m.point = <<0, 0, 0>> /\ m.lineStart = <<1, 0, 0>> /\ m.lineEnd = <<2, 0, 0>>)
             => d.num = d.den
          /\ m.lineStart = m.lineEnd
             => d.num = d.den * ( (m.point[1] - m.lineStart[1]) * (m.point[1] - m.lineStart[1])
                                + (m.point[2] - m.lineStart[2]) * (m.point[2] - m.lineStart[2])
                                + (m.point[3] - m.lineStart[3]) * (m.point[3] - m.lineStart[3]) )

\* the distance from the origin to the segment (1,0,0)-(2,0,0) has been
\* computed: the closest point is the start of the segment, not the foot
\* of the perpendicular on the line
C26_Witness ==
    /\ IsSome(measured)
    /\ Val(measured).point = <<0, 0, 0>>
    /\ Val(measured).lineStart = <<1, 0, 0>>
    /\ Val(measured).lineEnd = <<2, 0, 0>>
    /\ IsSome(Val(measured).distance)
    /\ Val(Val(measured).distance).num = 1

----------------------------------------------------------------------------
(* The client: one NetworkController after init().  Each geckos(config)    *)
(* call creates a channel with the handlers of setupEventHandlers; the     *)
(* transport later calls its onConnect callback, with or without an error, *)
(* and, for a connected channel, delivers snapshots and calls onDisconnect.*)
(* A channel the controller no longer refers to keeps its handlers.        *)

RECURSIVE Pow2(_)
Pow2(n) == IF n = 0 THEN 1 ELSE 2 * Pow2(n - 1)

Min(x, y) == IF x < y THEN x ELSE y

\* Math.min(1000 * Math.pow(2, reconnectAttempts), MAX_RECONNECT_DELAY)
tryReconnectDelay(reconnectAttempts) ==
    Min(RECONNECT_DELAY * Pow2(reconnectAttempts), MAX_RECONNECT_DELAY)

\* The pending setTimeout timers are the sequence c.timers, in the order
\* they were set: [delay, held], held for the one reconnectTimer refers to.
\* reconnectTimer is None (null) or Some(delay of the timer it was assigned
\* last), and keeps that value when the timer has fired.

\* reconnectTimer = setTimeout(..., delay): the handle is overwritten, the
\* timer it referred to stays pending
setTimer(c, delay) ==
    [c EXCEPT !.reconnectTimer = Some(delay),
              !.timers = Append([i \in 1..Len(@) |-> [@[i] EXCEPT !.held = FALSE]],
                                [delay |-> delay, held |-> TRUE])]

\* stopReconnectionTimer: clearTimeout of the handle, if there is one
stopReconnectionTimer(c) ==
    IF IsSome(c.reconnectTimer)
    THEN [c EXCEPT !.reconnectTimer = None,
                   !.timers = SelectSeq(@, LAMBDA t : ~t.held)]
    ELSE c

\* tryReconnect: stop when connected, else schedule the next attempt
tryReconnect(c) ==
    IF c.isConnected
    THEN stopReconnectionTimer(c)
    ELSE setTimer(c, tryReconnectDelay(c.reconnectAttempts))

\* startReconnectionTimer: the timer of the handle is cleared, the attempts
\* are counted from 0 again
startReconnectionTimer(c) ==
    tryReconnect([stopReconnectionTimer(c) EXCEPT !.reconnectAttempts = 0])

\* channel = geckos(config); setupEventHandlers(options): the state after
\* the two calls and whether they threw.  The geckos.io client returns a
\* channel that calls back later (channels beyond MaxConnecting get no
\* answer).  The mock client's onConnect calls its callback with an error
\* at once, which starts the reconnection timer, and the mock has no
\* onDisconnect to call, which throws.
openChannel(c) ==
    IF c.mock
    THEN [c |-> startReconnectionTimer(c), threw |-> TRUE]
    ELSE [c |-> [c EXCEPT !.connecting = Min(@ + 1, MaxConnecting)], threw |-> FALSE]

\* connectToServer
connectToServer(c) ==
    LET r == openChannel(c)
    IN IF r.threw THEN startReconnectionTimer(r.c)
       ELSE [r.c EXCEPT !.reconnectAttempts = 0]

\* the setTimeout callback of tryReconnect: try and catch end alike
reconnectCallback(c) ==
    tryReconnect([openChannel(c).c EXCEPT !.reconnectAttempts = @ + 1])

\* init() has called connectToServer, with the geckos.io client or with the
\* mock that geckosClient.js installs when the client could not be loaded
InitClient ==
    /\ players = <<>>
    /\ disconnectedPlayers = <<>>
    /\ playerLastSeen = <<>>
    /\ laserBuffer = <<>>
    /\ hitTimers = {}
    /\ due = [sweep |-> SWEEP_INTERVAL, laser |-> LASER_INTERVAL, sync |-> SYNC_INTERVAL]
    /\ now = 0
    /\ open = {}
    /\ sent = <<>>
    /\ last = [op |-> "start", id |-> ""]
    /\ shots = 0
    /\ purged = {}
    /\ leftAt = [i \in Ids |-> -1]
    /\ halted = FALSE
    /\ jitter = {0}
    /\ measured = None
    /\ \E mock \in BOOLEAN : client = connectToServer([ClientLoaded EXCEPT !.mock = mock])

\* a client step leaves the server alone
ClientStep(op) ==
    /\ last' = [op |-> op, id |-> ""]
    /\ UNCHANGED <<players, disconnectedPlayers, playerLastSeen, laserBuffer, hitTimers,
                   due, now, open, sent, shots, purged, leftAt, halted, jitter, measured>>

\* channel.onConnect callback without an error; the transport connects at
\* most MaxConnected channels of the client at once
ChannelConnected ==
    /\ ClientStep("onConnect")
    /\ client.connecting > 0
    /\ client.connected < MaxConnected
    /\ client' = [client EXCEPT !.isConnected = TRUE,
                                !.connecting = @ - 1, !.connected = @ + 1,
                                !.made = 0, !.snapshots = 0]

\* channel.onConnect callback with an error
ChannelConnectError ==
    /\ ClientStep("onConnectError")
    /\ client.connecting > 0
    /\ client' = startReconnectionTimer([client EXCEPT !.connecting = @ - 1])

\* channel.onDisconnect callback
ChannelDisconnected ==
    /\ ClientStep("onDisconnect")
    /\ client.connected > 0
    /\ client' = startReconnectionTimer([client EXCEPT !.isConnected = FALSE,
                                                       !.connected = @ - 1,
                                                       !.made = 0])

\* timers[i] is not due after a pending timer that was set before it
DueFirst(timers, i) ==
    \A j \in 1..(i - 1) : timers[j].delay > timers[i].delay

\* a pending timer fires: it is pending no more, and its callback runs
ReconnectTimerFire ==
    /\ ClientStep("reconnectTimer")
    /\ client.reconnectAttempts < MaxAttempts /\ client.made < MaxAttempts
    /\ \E i \in 1..Len(client.timers) :
          /\ DueFirst(client.timers, i)
          /\ client' = reconnectCallback(
                          [client EXCEPT
                              !.timers = [j \in 1..(Len(@) - 1) |->
                                             IF j < i THEN @[j] ELSE @[j + 1]],
                              !.made = @ + 1])

\* channel.on('playerUpdate'): a snapshot arrives on a connected channel
ChannelPlayerUpdate ==
    /\ ClientStep("snapshot")
    /\ client.connected > 0
    /\ client' = [client EXCEPT !.ignoreFirstPlayerUpdate = FALSE,
                                !.processed = ~client.ignoreFirstPlayerUpdate,
                                !.snapshots = Min(@ + 1, MaxSnapshots)]

NextClient ==
    \/ ChannelConnected
    \/ ChannelConnectError
    \/ ChannelDisconnected
    \/ ReconnectTimerFire
    \/ ChannelPlayerUpdate

SpecClient == InitClient /\ [][NextClient]_vars

\* C27: the client ignores the very first snapshot after each connection,
\* every reconnection included, and processes every later one.
C27_FirstSnapshotIgnored ==
    last.op = "snapshot" => (client.processed <=> client.snapshots > 1)

\* C28: while disconnected, the attempt after n attempts made since the
\* connection was lost is scheduled min(1000 * 2^n, 30000) ms ahead; the
\* delay never exceeds 30 s and does not fall back to 1 s.
C28_Backoff ==
    (~client.isConnected /\ IsSome(client.reconnectTimer)
       /\ \E i \in 1..Len(client.timers) : client.timers[i].held)
    => /\ Val(client.reconnectTimer) <= 30000
       /\ \/ Val(client.reconnectTimer) = 30000
          \/ Val(client.reconnectTimer) = 1000 * Pow2(client.made)

----------------------------------------------------------------------------
(* Arrival order: two shooters and one target.  Players a and b are out of *)
(* reach of the beam, player c is on it, at any health; a and b fire the   *)
(* same beam in any order, within one flush window or across two, and c    *)
(* may respawn.                                                            *)

OrderStart == SWEEP_INTERVAL
OrderShooters == {"a", "b"}
OrderHealth == {START_HEALTH, 2 * DAMAGE, DAMAGE, 0}

InitOrder ==
    \E hc \in OrderHealth, kc \in {0, 1} :
      LET a == [NewPlayer("a", OrderStart) EXCEPT !.position = PFar]
          b == [NewPlayer("b", OrderStart) EXCEPT !.position = PFar]
          c == [NewPlayer("c", OrderStart) EXCEPT !.position = PNear, !.health = hc,
                                                  !.kills = IF hc > 0 THEN kc ELSE 0]
      IN  /\ players = <<[k |-> "a", v |-> a], [k |-> "b", v |-> b], [k |-> "c", v |-> c]>>
          /\ disconnectedPlayers = <<>>
          /\ playerLastSeen = [i \in 1..3 |-> [k |-> players[i].k, v |-> OrderStart]]
          /\ laserBuffer = <<>>
          /\ hitTimers = {}
          /\ due = [sweep |-> OrderStart + SWEEP_INTERVAL,
                    laser |-> OrderStart + LASER_INTERVAL,
                    sync |-> OrderStart + SYNC_INTERVAL]
          /\ now = OrderStart
          /\ open = ScanIds
          /\ sent = <<>>
          /\ last = [op |-> "start", id |-> ""]
          /\ shots = 0
          /\ purged = {}
          /\ leftAt = [i \in Ids |-> -1]
          /\ halted = FALSE
          /\ jitter = {0}
          /\ measured = None
          /\ client = ClientLoaded

MaxTimeOrder == OrderStart + MaxTicksOrder * LASER_INTERVAL

NextOrder ==
    \/ Fire(OrderShooters, {Beam}, MaxShotsOrder)
    \/ PlayerUpdate("c", Respawn)
    \/ LaserFlush
    \/ StateSync
    \/ Tick(LASER_INTERVAL, MaxTimeOrder)

SpecOrder == InitOrder /\ [][NextOrder]_vars

\* C29: hits are resolved in arrival order.  Each laserFire is resolved by
\* its own handler against the registry as the earlier shots left it, and
\* the flush, the sync and the clock change nothing: a shot at a target
\* above DAMAGE costs it DAMAGE and credits nobody; a shot at a target at
\* DAMAGE takes it to 0 and credits the shooter with the kill; a shot at a
\* target at 0 changes no record, so of two shooters firing at a target
\* with health 5 the first gets the kill and the second neither damages
\* nor scores.
C29_ArrivalOrder ==
    [][/\ \A s \in OrderShooters :
            (last' = [op |-> "laserFire", id |-> s])
            => LET h == MapGet(players, "c").health
                   c2 == MapGet(players', "c")
               IN /\ MapKeys(players') = MapKeys(players)
                  /\ \A o \in OrderShooters \ {s} : MapGet(players', o) = MapGet(players, o)
                  /\ h = 0 => players' = players
                  /\ h = 5 => /\ c2.health = 0 /\ c2.kills = 0
                              /\ MapGet(players', s).kills = MapGet(players, s).kills + 1
                  /\ h > 5 => /\ c2.health = h - 5
                              /\ c2.kills = MapGet(players, "c").kills
                              /\ MapGet(players', s) = MapGet(players, s)
       /\ (last'.op \in {"laserFlush", "stateSync", "tick"}) => players' = players]_vars

\* c had health 5; a fired, then b, within the same flush window: a has
\* the kill, b has none and both events wait in the buffer
C29_Witness ==
    /\ last = [op |-> "laserFire", id |-> "b"]
    /\ now = OrderStart
    /\ shots = 2
    /\ MapGet(players, "c").health = 0
    /\ MapGet(players, "a").kills = 1
    /\ MapGet(players, "b").kills = 0
    /\ Len(MapGet(laserBuffer, "a")) = 1
    /\ Len(MapGet(laserBuffer, "b")) = 1

----------------------------------------------------------------------------
(* Clock reads.  The server from start-up with a clock that may advance    *)
(* by up to MaxJitter ms between the two Date.now() calls of the           *)
(* connection handler and of the update handler.                           *)

InitClock ==
    /\ players = <<>>
    /\ disconnectedPlayers = <<>>
    /\ playerLastSeen = <<>>
    /\ laserBuffer = <<>>
    /\ hitTimers = {}
    /\ due = [sweep |-> SWEEP_INTERVAL, laser |-> LASER_INTERVAL, sync |-> SYNC_INTERVAL]
    /\ now = 0
    /\ open = {}
    /\ sent = <<>>
    /\ last = [op |-> "start", id |-> ""]
    /\ shots = 0
    /\ purged = {}
    /\ leftAt = [i \in Ids |-> -1]
    /\ halted = FALSE
    /\ jitter = 0..MaxJitter
    /\ measured = None
    /\ client = ClientLoaded

MaxTimeClock == MaxSweepsClock * SWEEP_INTERVAL + MaxDrift

NextClock ==
    \/ Lifecycle(Ids, Ids, {NoFields, Respawn})
    \/ Intervals
    \/ Tick(SWEEP_INTERVAL, MaxTimeClock)

SpecClock == InitClock /\ [][NextClock]_vars

\* C30: the key set of playerLastSeen equals the key set of the active
\* registry, and for every active id the last-seen value equals the
\* record's timestamp.
C30_LastSeen ==
    /\ MapKeys(playerLastSeen) = MapKeys(players)
    /\ \A id \in MapKeys(players) :
          MapGet(playerLastSeen, id) = MapGet(players, id).timestamp

\* C30, amended: the key sets are equal, and for every active id the
\* last-seen value and the record's timestamp come from two clock reads of
\* the same handler: they differ by no more than the clock advanced
\* between the reads.
C30_LastSeenNearTimestamp ==
    /\ MapKeys(playerLastSeen) = MapKeys(players)
    /\ \A id \in MapKeys(players) :
          LET skew == MapGet(playerLastSeen, id) - MapGet(players, id).timestamp
          IN -MaxJitter <= skew /\ skew <= MaxJitter

\* a is active with a timestamp read before the last-seen time (its
\* connection), b with a timestamp read after it (its update)
C30_Witness ==
    /\ MapKeys(players) = {"a", "b"}
    /\ MapGet(playerLastSeen, "a") > MapGet(players, "a").timestamp
    /\ MapGet(playerLastSeen, "b") < MapGet(players, "b").timestamp

----------------------------------------------------------------------------
(* Frame: connections that only fire.  The server has run for CombatStart  *)
(* ms; a and b joined at start-up and were last heard of at CombatStart    *)
(* (or a was silent and has just been timed out with its channel open).    *)
(* From here no channel sends a playerUpdate, opens or closes: they fire.  *)

MaxSweepsFrame == 3
MaxShotsFrame == 2

FrameHealth == {START_HEALTH, DAMAGE, 0}
FrameKills == {<<1, 0>>, <<0, 1>>}

InitFrame ==
    \E ha \in FrameHealth, hb \in FrameHealth, ks \in FrameKills, silent \in BOOLEAN :
      LET a == [NewPlayer("a", IF silent THEN 0 ELSE CombatStart)
                    EXCEPT !.health = ha, !.kills = ks[1]]
          b == [NewPlayer("b", CombatStart) EXCEPT !.health = hb, !.kills = ks[2]]
      IN  /\ players = IF silent THEN <<[k |-> "b", v |-> b]>>
                       ELSE <<[k |-> "a", v |-> a], [k |-> "b", v |-> b]>>
          /\ disconnectedPlayers = IF silent THEN <<[k |-> "a", v |-> a]>> ELSE <<>>
          /\ playerLastSeen = IF silent THEN <<[k |-> "b", v |-> CombatStart]>>
                              ELSE <<[k |-> "a", v |-> CombatStart],
                                     [k |-> "b", v |-> CombatStart]>>
          /\ laserBuffer = <<>>
          /\ hitTimers = {}
          /\ due = [sweep |-> CombatStart + SWEEP_INTERVAL,
                    laser |-> CombatStart + LASER_INTERVAL,
                    sync |-> CombatStart + SYNC_INTERVAL]
          /\ now = CombatStart
          /\ open = {"a", "b"}
          /\ sent = <<>>
          /\ last = [op |-> "start", id |-> ""]
          /\ shots = 0
          /\ purged = {}
          /\ leftAt = [i \in Ids |-> IF silent /\ i = "a" THEN CombatStart ELSE -1]
          /\ halted = FALSE
          /\ jitter = {0}
          /\ measured = None
          /\ client = ClientLoaded

MaxTimeFrame == CombatStart + MaxSweepsFrame * SWEEP_INTERVAL

NextFrame ==
    \/ Fire(Ids, LaserEvents, MaxShotsFrame)
    \/ Intervals
    \/ HitTimers
    \/ Tick(SWEEP_INTERVAL, MaxTimeFrame)

SpecFrame == InitFrame /\ [][NextFrame]_vars

\* positions of the active registry whose health or recentlyHit the step changes
HitBy(ps, qs) ==
    {i \in 1..Len(ps) : ps[i].v.health # qs[i].v.health
                        \/ ps[i].v.recentlyHit # qs[i].v.recentlyHit}

\* the step took the record at i from above 0 to health 0
KilledAt(ps, qs, i) == ps[i].v.health > 0 /\ qs[i].v.health = 0

\* C31. Frame of laserFire: one laserFire changes the health and recentlyHit
\* of at most one player, never the shooter, and besides that only the
\* kills of the shooter (plus one) and of the victim (to 0) on a kill; it
\* changes no position, rotation, nickname, timestamp or last-seen value and
\* no registry membership, so a sweep still times out every connection that
\* was last heard of more than PLAYER_TIMEOUT ago, however much it fired.
C31_LaserFrame ==
    [][/\ last'.op = "laserFire" =>
            /\ playerLastSeen' = playerLastSeen
            /\ disconnectedPlayers' = disconnectedPlayers
            /\ Len(players') = Len(players)
            /\ \A i \in 1..Len(players) :
                  /\ players'[i].k = players[i].k
                  /\ players'[i].v = [players[i].v EXCEPT
                                         !.health = players'[i].v.health,
                                         !.recentlyHit = players'[i].v.recentlyHit,
                                         !.kills = players'[i].v.kills]
                  /\ \/ players'[i].v.kills = players[i].v.kills
                     \/ /\ players[i].k = last'.id
                        /\ players'[i].v.kills = players[i].v.kills + 1
                        /\ \E j \in 1..Len(players) : KilledAt(players, players', j)
                     \/ /\ KilledAt(players, players', i)
                        /\ players'[i].v.kills = 0
            /\ Cardinality(HitBy(players, players')) <= 1
            /\ \A i \in HitBy(players, players') :
                  /\ players[i].k # last'.id
                  /\ players'[i].v.health < players[i].v.health
       /\ last'.op = "sweep" =>
            \A id \in MapKeys(players') :
               now' - MapGet(playerLastSeen', id) <= PLAYER_TIMEOUT]_vars

\* a sweep has just timed out b, whose fire event of this very moment is
\* still in the buffer
C31_Witness ==
    /\ last.op = "sweep"
    /\ MapHas(disconnectedPlayers, "b")
    /\ leftAt["b"] = now
    /\ MapHas(laserBuffer, "b")
    /\ shots = MaxShotsFrame

----------------------------------------------------------------------------
(* Health over a player's life.                                            *)

\* health of the record of id, active or kept for its return
HealthOf(ps, disc, id) ==
    IF MapHas(ps, id) THEN MapGet(ps, id).health ELSE MapGet(disc, id).health

\* C32. Health monotonicity: the health of a player's record goes up only in
\* a playerUpdate step of the player's own connection (a respawn), and then
\* to exactly START_HEALTH; a laserFire step only lowers it; connect,
\* disconnect, sweep and every other step leave it as it is, so a player
\* that left with health 0 has health 0 after reconnecting.
C32_HealthMonotone ==
    [][\A id \in Ids :
         (/\ MapHas(players, id) \/ MapHas(disconnectedPlayers, id)
          /\ MapHas(players', id) \/ MapHas(disconnectedPlayers', id))
         => LET h == HealthOf(players, disconnectedPlayers, id)
                hNew == HealthOf(players', disconnectedPlayers', id)
            IN /\ hNew > h => /\ last' = [op |-> "playerUpdate", id |-> id]
                              /\ MapHas(players, id)
                              /\ hNew = START_HEALTH
               /\ last'.op = "laserFire" => hNew <= h
               /\ last'.op \notin {"laserFire", "playerUpdate"} => hNew = h]_vars

\* a has just reconnected with the health 0 it was killed and left with
C32_Witness ==
    /\ last = [op |-> "connect", id |-> "a"]
    /\ MapHas(players, "a")
    /\ MapGet(players, "a").health = 0
    /\ shots > 0

----------------------------------------------------------------------------
(* Shooters the active registry does not hold, and dead shooters.          *)

\* the event has the two positions the handler requires
HasPositions(data) == IsSome(data.startPosition) /\ IsSome(data.endPosition)

\* positions of the living records of ps other than the shooter's
Living(ps, id) == {i \in 1..Len(ps) : ps[i].k # id /\ ps[i].v.health > 0}

\* the records at the positions in hit lost DAMAGE health (never below 0)
\* and are flagged; a record taken to 0 has kills 0; the others kept their health
Damaged(ps, qs, hit) ==
    /\ Len(qs) = Len(ps)
    /\ \A i \in 1..Len(ps) :
          IF i \in hit
          THEN /\ qs[i].v.health = (IF ps[i].v.health > DAMAGE
                                    THEN ps[i].v.health - DAMAGE ELSE 0)
               /\ qs[i].v.recentlyHit
               /\ qs[i].v.health = 0 => qs[i].v.kills = 0
          ELSE qs[i].v.health = ps[i].v.health

\* C33. Ghost shooter: a well-formed laserFire on an open channel whose id
\* the active registry does not hold is buffered under that id with that
\* shooterId, and is hit-resolved: with the hint and a living player on the
\* beam exactly one living player loses DAMAGE health, its kills going to 0
\* when the hit takes it to 0, while no player's kills goes up; the flush
\* sends the buffered events of such an id like any other.
C33_GhostShooter ==
    [][/\ \A id \in Ids, data \in LaserEvents :
            (LaserFire(id, data, MaxShotsFrame) /\ HasPositions(data)
               /\ ~MapHas(players, id))
            => /\ ~MapHas(players', id)
               /\ MapHas(laserBuffer', id)
               /\ Len(Queue(laserBuffer, id)) < LASER_QUEUE_MAX
                    => Queue(laserBuffer', id)
                         = Append(Queue(laserBuffer, id),
                                  [data EXCEPT !.shooterId = Some(id)])
               /\ \A i \in 1..Len(players) :
                     players'[i].v.kills <= players[i].v.kills
               /\ IF data.likelyHit /\ Living(players, id) # {}
                  THEN \E i \in Living(players, id) : Damaged(players, players', {i})
                  ELSE players' = players
       /\ last'.op = "laserFlush"
            => \A p \in Places(laserBuffer) :
                  \E m \in 1..Len(sent') : \E n \in 1..Len(sent'[m].payload) :
                     /\ sent'[m].payload[n] = laserBuffer[p[1]].v[p[2]]
                     /\ sent'[m].to = open]_vars

\* a flush has just sent the event of a, which the sweep had timed out: the
\* shot took b from DAMAGE to 0 and b's kills from 1 to 0, and a's kept
\* record has the 0 kills it had
C33_Witness ==
    /\ last.op = "laserFlush"
    /\ ~MapHas(players, "a") /\ MapHas(disconnectedPlayers, "a")
    /\ MapGet(disconnectedPlayers, "a").kills = 0
    /\ MapHas(players, "b")
    /\ MapGet(players, "b").health = 0 /\ MapGet(players, "b").kills = 0
    /\ MapGet(players, "b").recentlyHit
    /\ Len(sent) = 1
    /\ \E n \in 1..Len(sent[1].payload) : sent[1].payload[n].shooterId = Some("a")

\* C34. Dead shooter: a hinted, well-formed laserFire of an active player
\* whose health is 0 takes DAMAGE from one living player on the beam, and
\* when that hit takes the victim to 0 the shooter's kills goes up by one
\* and the victim's to 0, as for a shooter that is alive; without a kill
\* the shooter's kills stays.
C34_DeadShooter ==
    [][\A id \in Ids, data \in LaserEvents :
         (/\ LaserFire(id, data, MaxShotsFrame)
          /\ HasPositions(data) /\ data.likelyHit
          /\ MapHas(players, id) /\ MapGet(players, id).health = 0
          /\ Living(players, id) # {})
         => \E i \in Living(players, id) :
               /\ Damaged(players, players', {i})
               /\ MapGet(players', id).health = 0
               /\ MapGet(players', id).kills
                    = MapGet(players, id).kills
                      + (IF KilledAt(players, players', i) THEN 1 ELSE 0)]_vars

\* a, active with health 0, has just killed b and has the kill credit
C34_Witness ==
    /\ last = [op |-> "laserFire", id |-> "a"]
    /\ MapHas(players, "a") /\ MapGet(players, "a").health = 0
    /\ MapGet(players, "a").kills = 2
    /\ MapHas(players, "b") /\ MapGet(players, "b").health = 0
    /\ MapGet(players, "b").recentlyHit

----------------------------------------------------------------------------
(* playerLeft notifications.                                               *)

\* the playerLeft messages about id among the messages out
LeftNotices(out, id) ==
    {m \in 1..Len(out) : out[m].topic = "playerLeft" /\ out[m].payload = [id |-> id]}

\* C35. playerLeft once per departure: a step that takes id out of the
\* active registry (disconnect or sweep timeout) emits exactly one
\* playerLeft for id, and the disconnect of a channel whose id a sweep has
\* already timed out emits no playerLeft and changes no registry.
C35_LeftOnce ==
    [][\A id \in Ids :
         /\ (MapHas(players, id) /\ ~MapHas(players', id))
              => Cardinality(LeftNotices(sent', id)) = 1
         /\ (last' = [op |-> "disconnect", id |-> id] /\ ~MapHas(players, id))
              => /\ LeftNotices(sent', id) = {}
                 /\ players' = players
                 /\ disconnectedPlayers' = disconnectedPlayers
                 /\ playerLastSeen' = playerLastSeen]_vars

----------------------------------------------------------------------------
(* Tie-break.  Three players are active one sweep period after start-up,   *)
(* inserted in the order a, b, c: a at the origin fires along the x axis,  *)
(* b and c stand 8 or 6 from the beam, on either side of it.  b's channel  *)
(* may close and open again; the clock is observed once per flush period.  *)

MaxTicksTie == 1
MaxShotsTie == 2

TiePositions == {PNear, <<0, -8, 0>>, <<0, 6, 0>>}
TieHealth == {START_HEALTH, DAMAGE}

InitTie ==
    \E pb \in TiePositions, pc \in TiePositions, hb \in TieHealth, hc \in TieHealth :
      LET a == NewPlayer("a", ScanStart)
          b == [NewPlayer("b", ScanStart) EXCEPT !.position = pb, !.health = hb]
          c == [NewPlayer("c", ScanStart) EXCEPT !.position = pc, !.health = hc]
      IN  /\ players = <<[k |-> "a", v |-> a], [k |-> "b", v |-> b], [k |-> "c", v |-> c]>>
          /\ disconnectedPlayers = <<>>
          /\ playerLastSeen = [i \in 1..3 |-> [k |-> players[i].k, v |-> ScanStart]]
          /\ laserBuffer = <<>>
          /\ hitTimers = {}
          /\ due = [sweep |-> ScanStart + SWEEP_INTERVAL,
                    laser |-> ScanStart + LASER_INTERVAL,
                    sync |-> ScanStart + SYNC_INTERVAL]
          /\ now = ScanStart
          /\ open = ScanIds
          /\ sent = <<>>
          /\ last = [op |-> "start", id |-> ""]
          /\ shots = 0
          /\ purged = {}
          /\ leftAt = [i \in Ids |-> -1]
          /\ halted = FALSE
          /\ jitter = {0}
          /\ measured = None
          /\ client = ClientLoaded

MaxTimeTie == ScanStart + MaxTicksTie * LASER_INTERVAL

NextTie ==
    \/ Lifecycle({"b"}, {"b", "c"}, {Respawn})
    \/ Fire({"a"}, {Beam}, MaxShotsTie)
    \/ LaserFlush
    \/ StateSync
    \/ Tick(LASER_INTERVAL, MaxTimeTie)

SpecTie == InitTie /\ [][NextTie]_vars

\* positions of the active registry of the living players other than a that
\* are less than hitThreshold from the beam and no farther than any other
Closest ==
    LET near == {i \in 1..Len(players) :
                    /\ players[i].k # "a" /\ players[i].v.health > 0
                    /\ ScanSquare(players[i].v.position) < hitThreshold * hitThreshold}
    IN {i \in near : \A j \in near : ScanSquare(players[i].v.position)
                                       <= ScanSquare(players[j].v.position)}

\* C36. Tie-break: of the eligible players at the same smallest distance
\* below the threshold, a laserFire hurts the one that comes first in the
\* insertion order of the active registry, and no other; a connect puts
\* its id last in that order, a reconnected player too.
C36_TieBreak ==
    [][/\ LaserFire("a", Beam, MaxShotsTie)
            => Hurt = (IF Closest = {} THEN {}
                       ELSE {CHOOSE i \in Closest : \A j \in Closest : i <= j})
       /\ \A id \in Ids :
            last' = [op |-> "connect", id |-> id]
            => /\ players'[Len(players')].k = id
               /\ SelectSeq(players', LAMBDA e : e.k # id)
                    = SelectSeq(players, LAMBDA e : e.k # id)]_vars

\* b left and came back, so the order is a, c, b; b and c are alive and 8
\* from the beam on opposite sides: the shot has just hurt c and not b
C36_Witness ==
    /\ last.op = "laserFire"
    /\ Len(players) = 3 /\ players[2].k = "c" /\ players[3].k = "b"
    /\ players[2].v.position = <<0, -8, 0>> /\ players[3].v.position = PNear
    /\ players[2].v.recentlyHit /\ players[2].v.health = START_HEALTH - DAMAGE
    /\ ~players[3].v.recentlyHit /\ players[3].v.health = START_HEALTH

----------------------------------------------------------------------------
(* The client's reconnection timers.                                       *)

\* C37. No connection while connected: a reconnection timer that fires
\* while the client is connected creates no channel, so that between a
\* successful connect and the next disconnect the client opens no further
\* connection.
C37_NoChannelWhileConnected ==
    [][(last'.op = "reconnectTimer" /\ client.isConnected)
         => client'.connecting = client.connecting]_vars

\* C38. One reconnection timer: at most one reconnection timer is pending
\* at any time, whatever the order of timer firings, connect errors and
\* disconnects, also with a channel that reports its connect error while
\* the handlers are being installed.
C38_OneTimer ==
    Len(client.timers) <= 1

====
